---- MODULE Spec2Model ----
(***************************************************************************)
(* Model of the batch image safety classifier                              *)
(* (_worker/infrastructure/classifier/classify_batch.py) and of the image  *)
(* selector with its smart blur (_seo_worker/python/image_selector.py).    *)
(*                                                                         *)
(* Scores are Python floats in the source.  Here they are fixed-point      *)
(* integers in millionths: ONE stands for 1.0, 300000 for 0.3.  Every      *)
(* model/detector confidence drawn below is a multiple of 10, so that the  *)
(* products by 0.3 and 0.7 in the fusion rule are exact.                   *)
(***************************************************************************)
EXTENDS Integers, Sequences, FiniteSets, TLC

ONE == 1000000

\* Module-level defaults of the three tier thresholds.
SUPER_SAFE_DEFAULT == 150000
NSFW_DEFAULT == 300000
MIN_FACE_DEFAULT == 100000

\* Default Hamming distance threshold of the deduplication.
PHASH_THRESHOLD == 8

\* NudeNet labels that count as NSFW.
NSFW_LABELS ==
    { "FEMALE_BREAST_EXPOSED", "FEMALE_GENITALIA_EXPOSED",
      "MALE_GENITALIA_EXPOSED", "BUTTOCKS_EXPOSED", "ANUS_EXPOSED",
      "FEMALE_BREAST_COVERED", "BELLY_EXPOSED" }

\* Labels of the general classifier that count as NSFW.
FALCONSAI_LABELS == { "nsfw", "porn", "sexy", "hentai" }

\* The value None of Python, for a model handle.
None == "None"

\* The value None of Python, for a perceptual hash (hashes are naturals).
NoHash == 0 - 1

Min(a, b) == IF a < b THEN a ELSE b

Max(a, b) == IF a > b THEN a ELSE b

Abs(a) == IF a < 0 THEN 0 - a ELSE a

(***************************************************************************)
(* round(x, 4): the nearest multiple of 0.0001, ties to even.              *)
(***************************************************************************)
Round4(x) ==
    LET q == x \div 100
        r == x % 100
    IN  IF r < 50 THEN q * 100
        ELSE IF r > 50 THEN (q + 1) * 100
        ELSE IF q % 2 = 0 THEN q * 100 ELSE (q + 1) * 100

\* str.lower() on the labels the general classifier can emit.
Lower(label) ==
    CASE label = "NSFW" -> "nsfw"
      [] label = "Porn" -> "porn"
      [] OTHER -> label

\* os.path.basename of a path <<directory, name>>.
Basename(path) == path[2]

(***************************************************************************)
(* Signal extractors.  The pixel-level library calls (model inference,     *)
(* Haar cascade, Laplacian, skin mask) are inputs; what the methods do     *)
(* with their outputs is computed as in the source.                        *)
(***************************************************************************)

\* _score_falconsai: the first entry with an NSFW label, else 0.
RECURSIVE FirstNsfwScore(_, _)
FirstNsfwScore(out, i) ==
    IF i > Len(out) THEN 0
    ELSE IF Lower(out[i].label) \in FALCONSAI_LABELS THEN out[i].score
    ELSE FirstNsfwScore(out, i + 1)

ScoreFalconsai(model, out) ==
    IF model = None THEN 0
    ELSE IF out.raises THEN 0
    ELSE FirstNsfwScore(out.out, 1)

\* _score_nudenet: the maximum confidence over the NSFW-labelled detections.
RECURSIVE MaxNsfwScore(_, _, _)
MaxNsfwScore(dets, i, acc) ==
    IF i > Len(dets) THEN acc
    ELSE MaxNsfwScore(dets, i + 1,
                      IF dets[i].class \in NSFW_LABELS
                      THEN Max(acc, dets[i].score) ELSE acc)

ScoreNudenet(detector, dets) ==
    IF detector = None THEN 0
    ELSE IF dets.raises THEN 0
    ELSE IF Len(dets.out) = 0 THEN 0
    ELSE MaxNsfwScore(dets.out, 1, 0)

\* Area ratio of a face <<x, y, w, h>> in an image, in millionths (image
\* areas are multiples of 1000 pixels; the split keeps 32-bit arithmetic).
FaceRatio(face, img) ==
    (face[3] * face[4] * 1000) \div ((img.w * img.h) \div 1000)

RECURSIVE MaxFaceRatio(_, _, _, _)
MaxFaceRatio(faces, img, i, acc) ==
    IF i > Len(faces) THEN acc
    ELSE MaxFaceRatio(faces, img, i + 1, Max(acc, FaceRatio(faces[i], img)))

\* _calculate_face_score: <<score, face list>>.
CalculateFaceScore(cascade, img) ==
    IF cascade = None THEN <<0, <<>>>>
    ELSE IF img.faces.raises THEN <<0, <<>>>>
    ELSE IF Len(img.faces.out) = 0 THEN <<0, <<>>>>
    ELSE LET r == MaxFaceRatio(img.faces.out, img, 1, 0)
             score == IF r < 10000 THEN r * 10
                      ELSE IF r > 500000 THEN 500000
                      ELSE Min(ONE, r * 5)
         IN  <<score, img.faces.out>>

\* _calculate_aesthetic_score returning 0 instead of 0.5 when it raises.
CalculateAestheticScore_ZeroOnError(img) ==
    IF img.aesthetic.raises THEN 0
    ELSE LET sharpness == Min(ONE, (img.aesthetic.lap_var * ONE) \div 500)
             brightness == (img.aesthetic.mean_gray * ONE) \div 255
             brightness_score == ONE - Abs(brightness - 500000) * 2
         IN  (sharpness * 6) \div 10 + (brightness_score * 4) \div 10

\* _calculate_aesthetic_score from the Laplacian variance and the mean gray
\* level (0..255).
CalculateAestheticScore(img) ==
    IF img.aesthetic.raises THEN 500000
    ELSE LET sharpness == Min(ONE, (img.aesthetic.lap_var * ONE) \div 500)
             brightness == (img.aesthetic.mean_gray * ONE) \div 255
             brightness_score == ONE - Abs(brightness - 500000) * 2
         IN  (sharpness * 6) \div 10 + (brightness_score * 4) \div 10

\* The block loop of _detect_mosaic: the best hits/skin-window ratio over
\* the block sizes 8, 12, 16, 20, counting a size only with > 10 skin windows.
RECURSIVE BestBlockScore(_, _, _)
BestBlockScore(blocks, i, best) ==
    IF i > Len(blocks) THEN best
    ELSE LET b == blocks[i]
             ratio == IF b.skin > 10 THEN (b.mosaic * ONE) \div b.skin ELSE 0
         IN  BestBlockScore(blocks, i + 1,
                            IF b.skin > 10 /\ ratio > best THEN ratio ELSE best)

\* _detect_mosaic: <<is_mosaic, score, details>>.
DetectMosaic(img) ==
    IF img.mosaic.raises THEN <<FALSE, 0, "error">>
    ELSE IF img.w < 100 \/ img.h < 100 THEN <<FALSE, 0, "image too small">>
    ELSE LET block == BestBlockScore(img.mosaic.blocks, 1, 0)
             lap_var == img.mosaic.skin_lap_var
             lap_score == Min(ONE, (lap_var * ONE) \div 2000)
             boosted ==
                 IF img.mosaic.skin_pixels > 1000 /\ lap_var > 500
                    /\ lap_score * 2 > block
                 THEN Max(block, block + (lap_score * 3) \div 10)
                 ELSE block
         IN  <<boosted > 5000, boosted, "blocks">>

\* _detect_pov: <<is_pov, score, details>>.
RECURSIVE LargestFace(_, _, _)
LargestFace(faces, i, best) ==
    IF i > Len(faces) THEN best
    ELSE LargestFace(faces, i + 1,
                     IF faces[i][3] * faces[i][4] > best[3] * best[4]
                     THEN faces[i] ELSE best)

DetectPov(img, face_data) ==
    IF Len(face_data) = 0 THEN <<FALSE, 0, "no face">>
    ELSE
      LET face == LargestFace(face_data, 2, face_data[1])
          face_ratio == FaceRatio(face, img)
          cx2 == 2 * face[1] + face[3]
          cy2 == 2 * face[2] + face[4]
          s == img.skin
          v_shape == IF s.center > 100000
                     THEN IF s.center > s.left /\ s.center > s.right
                          THEN s.center
                          ELSE IF s.center > 150000
                               THEN (s.center * 8) \div 10 ELSE 0
                     ELSE 0
          p_face == IF face_ratio > 200000 THEN 300000
                    ELSE IF face_ratio > 150000 THEN 200000 ELSE 0
          p_skin == IF s.bottom > 150000 THEN 300000
                    ELSE IF s.bottom > 80000 THEN 200000 ELSE 0
          p_v == IF v_shape > 150000 THEN 300000
                 ELSE IF v_shape > 80000 THEN 200000 ELSE 0
          p_up == IF 10 * cy2 < 8 * img.h THEN 200000 ELSE 0
          pov_score == p_face + p_skin + p_v + p_up
      IN  IF face_ratio < 150000 THEN <<FALSE, 0, "face too small">>
          ELSE IF 10 * Abs(cx2 - img.w) > 4 * img.w
               THEN <<FALSE, 0, "face not centered">>
          ELSE IF cy2 > img.h
               THEN <<FALSE, 0, "face not in upper portion">>
          ELSE IF s.raises THEN <<FALSE, 0, "error">>
          ELSE << pov_score >= 700000 /\ s.bottom > 200000 /\ s.edge > 500000,
                  pov_score, "geometry" >>

(***************************************************************************)
(* Score fusion of f = falconsai_score and n = nudenet_score.              *)
(***************************************************************************)
\* The fusion with the Falconsai score taken whole below n = 0.25.
Fuse_LowKeepsFalconsai(f, n) ==
    IF n < 250000 THEN f
    ELSE IF n > 600000 THEN n
    ELSE (n * 7) \div 10 + (f * 3) \div 10

Fuse(f, n) ==
    IF n < 250000 THEN (f * 3) \div 10
    ELSE IF n > 600000 THEN n
    ELSE (n * 7) \div 10 + (f * 3) \div 10


VARIABLES
    pc,                     \* position of the run
    NSFW_THRESHOLD,         \* module globals, overwritten by main()
    SUPER_SAFE_THRESHOLD,
    MIN_FACE_SCORE,
    IMAGEHASH_AVAILABLE,    \* whether the imagehash import succeeded
    classifier,             \* the NSFWClassifier object
    disk,                   \* the input directory: name -> image on disk
    args,                   \* parsed command-line arguments
    image_files,            \* classify_batch: list of paths being processed
    original_count,         \* classify_batch: len(image_files) before dedup
    dedup_removed,          \* classify_batch: duplicates removed
    idx,                    \* classify_batch: images classified so far
    results,                \* classify_batch: filename -> result
    results_order,          \* classify_batch: the keys of results in dict order
    counters,               \* classify_batch: the per-tier counters
    report,                 \* value returned by classify_batch
    locals,                 \* classify: the signals and the fused score
    result,                 \* classify: the returned dict
    dedup_in,               \* deduplicate_images: argument of the first call
    dedup_out,              \* deduplicate_images: result of the first call
    dedup_again,            \* deduplicate_images: result on its own output
    stdout,                 \* main: what was printed to standard output
    exit_code,              \* main: exit status of the process
    output_file,            \* main: content written to the --output file
    prev,                   \* the previous run of the command on this input
    selector,               \* the ImageSelector object (with its SmartBlur)
    web,                    \* url -> image served at that url
    blur_dir,               \* path -> JPEG saved in the blur output directory
    blur_call,              \* SmartBlur.process_image: arguments and return
    selection,              \* value returned by select_images
    verify                  \* verify_nsfw.py: the passed and failed counters

\* Variables of main() beyond classify_batch.
cliVars == << stdout, exit_code, output_file, prev >>

\* Variables of the image selector (_seo_worker/python).
selVars == << selector, web, blur_dir, blur_call, selection, verify >>

\* Variables of the batch classifier.
batchVars == << NSFW_THRESHOLD, SUPER_SAFE_THRESHOLD, MIN_FACE_SCORE,
                IMAGEHASH_AVAILABLE, classifier, disk, args, image_files,
                original_count, dedup_removed, idx, results, results_order, counters, report,
                locals, result, dedup_in, dedup_out, dedup_again >>

vars == << pc, NSFW_THRESHOLD, SUPER_SAFE_THRESHOLD, MIN_FACE_SCORE,
           IMAGEHASH_AVAILABLE, classifier, disk, args, image_files,
           original_count, dedup_removed, idx, results, results_order, counters, report,
           locals, result, dedup_in, dedup_out, dedup_again,
           stdout, exit_code, output_file, prev,
           selector, web, blur_dir, blur_call, selection, verify >>

(***************************************************************************)
(* NSFWClassifier.__init__ and load().  Each of the three models may fail  *)
(* to load, which leaves its handle None.                                  *)
(***************************************************************************)
NewClassifier ==
    [ falconsai_model |-> None, nudenet_detector |-> None,
      face_cascade |-> None, loaded |-> FALSE,
      skip_mosaic |-> FALSE, skip_pov |-> FALSE ]

Handles == { None, "model" }

Load(c, falconsai, nudenet, cascade) ==
    IF c.loaded THEN c
    ELSE [ c EXCEPT !.falconsai_model = falconsai,
                    !.nudenet_detector = nudenet,
                    !.face_cascade = cascade,
                    !.loaded = TRUE ]

(***************************************************************************)
(* NSFWClassifier.classify.  Returns the locals of the call (the signals   *)
(* before rounding) and the dict it returns.                               *)
(***************************************************************************)
NoLocals == [ loaded |-> FALSE ]

ErrorResultCv(filename) ==
    [ filename |-> filename, is_super_safe |-> FALSE, is_safe |-> FALSE,
      nsfw_score |-> ONE, face_score |-> 0, aesthetic_score |-> 0,
      falconsai_score |-> 0, nudenet_score |-> 0,
      mosaic_detected |-> FALSE, mosaic_score |-> 0,
      classification |-> "error", reason |-> "Failed to load image",
      error |-> "Failed to load image" ]

ErrorResultExc(filename, msg) ==
    [ filename |-> filename, is_super_safe |-> FALSE, is_safe |-> FALSE,
      nsfw_score |-> ONE, face_score |-> 0, aesthetic_score |-> 0,
      falconsai_score |-> 0, nudenet_score |-> 0,
      mosaic_detected |-> FALSE, mosaic_score |-> 0,
      pov_detected |-> FALSE, pov_score |-> 0,
      classification |-> "error", reason |-> msg, error |-> msg ]

\* Tier with the POV rule tried before the mosaic rule.
Tier_PovFirst(nsfw_score, face_score, mosaic_detected, pov_detected, is_super_safe, nsfw_t, super_t) ==
    IF pov_detected THEN <<"safe", "POV composition detected">>
    ELSE IF mosaic_detected THEN <<"nsfw", "mosaic detected">>
    ELSE IF is_super_safe THEN <<"super_safe", "clean">>
    ELSE IF nsfw_score < nsfw_t
         THEN IF nsfw_score >= super_t
              THEN <<"safe", "too high for super_safe">>
              ELSE <<"safe", "no face detected">>
    ELSE <<"nsfw", "nsfw>=threshold">>

\* Tier with the POV rule applied only below the NSFW threshold.
Tier_PovBelowThreshold(nsfw_score, face_score, mosaic_detected, pov_detected, is_super_safe, nsfw_t, super_t) ==
    IF mosaic_detected THEN <<"nsfw", "mosaic detected">>
    ELSE IF pov_detected /\ nsfw_score < nsfw_t
         THEN <<"safe", "POV composition detected">>
    ELSE IF is_super_safe THEN <<"super_safe", "clean">>
    ELSE IF nsfw_score < nsfw_t
         THEN IF nsfw_score >= super_t
              THEN <<"safe", "too high for super_safe">>
              ELSE <<"safe", "no face detected">>
    ELSE <<"nsfw", "nsfw>=threshold">>

\* The tier rules: <<classification, reason>>.
Tier(nsfw_score, face_score, mosaic_detected, pov_detected, is_super_safe, nsfw_t, super_t) ==
    IF mosaic_detected THEN <<"nsfw", "mosaic detected">>
    ELSE IF pov_detected THEN <<"safe", "POV composition detected">>
    ELSE IF is_super_safe THEN <<"super_safe", "clean">>
    ELSE IF nsfw_score < nsfw_t
         THEN IF nsfw_score >= super_t
              THEN <<"safe", "too high for super_safe">>
              ELSE <<"safe", "no face detected">>
    ELSE <<"nsfw", "nsfw>=threshold">>

\* is_super_safe with face_score >= MIN_FACE_SCORE instead of >.
IsSuperSafe_FaceGe(nsfw_score, face_score, mosaic_detected, pov_detected, super_t, min_face) ==
    /\ nsfw_score < super_t
    /\ face_score >= min_face
    /\ ~mosaic_detected
    /\ ~pov_detected

IsSuperSafe(nsfw_score, face_score, mosaic_detected, pov_detected, super_t, min_face) ==
    /\ nsfw_score < super_t
    /\ face_score > min_face
    /\ ~mosaic_detected
    /\ ~pov_detected

\* is_safe with the comparison to the threshold reversed.
IsSafe_Ge(nsfw_score, mosaic_detected, nsfw_t) ==
    nsfw_score >= nsfw_t /\ ~mosaic_detected

IsSafe(nsfw_score, mosaic_detected, nsfw_t) ==
    nsfw_score < nsfw_t /\ ~mosaic_detected

Classify(c, path, img, nsfw_t, super_t, min_face) ==
    LET filename == Basename(path) IN
    IF img.load = "pil_error"
    THEN [ locals |-> NoLocals, result |-> ErrorResultExc(filename, img.errmsg) ]
    ELSE IF img.load = "cv_none"
    THEN [ locals |-> NoLocals, result |-> ErrorResultCv(filename) ]
    ELSE
      LET falconsai_score == ScoreFalconsai(c.falconsai_model, img.falconsai)
          nudenet_score == ScoreNudenet(c.nudenet_detector, img.nudenet)
          nsfw_score == Fuse(falconsai_score, nudenet_score)
          face == CalculateFaceScore(c.face_cascade, img)
          face_score == face[1]
          aesthetic_score == CalculateAestheticScore(img)
          mosaic == IF c.skip_mosaic THEN <<FALSE, 0, "skipped">>
                    ELSE DetectMosaic(img)
          pov == IF c.skip_pov THEN <<FALSE, 0, "skipped">>
                 ELSE DetectPov(img, face[2])
          is_super_safe == IsSuperSafe(nsfw_score, face_score, mosaic[1],
                                       pov[1], super_t, min_face)
          is_safe == IsSafe(nsfw_score, mosaic[1], nsfw_t)
          tier == Tier(nsfw_score, face_score, mosaic[1], pov[1],
                       is_super_safe, nsfw_t, super_t)
      IN  [ locals |->
              [ loaded |-> TRUE,
                falconsai_score |-> falconsai_score,
                nudenet_score |-> nudenet_score,
                nsfw_score |-> nsfw_score,
                face_score |-> face_score,
                mosaic_detected |-> mosaic[1],
                pov_detected |-> pov[1] ],
            result |->
              [ filename |-> filename,
                is_super_safe |-> is_super_safe,
                is_safe |-> is_safe,
                nsfw_score |-> Round4(nsfw_score),
                face_score |-> Round4(face_score),
                aesthetic_score |-> Round4(aesthetic_score),
                falconsai_score |-> Round4(falconsai_score),
                nudenet_score |-> Round4(nudenet_score),
                mosaic_detected |-> mosaic[1],
                mosaic_score |-> Round4(mosaic[2]),
                pov_detected |-> pov[1],
                pov_score |-> Round4(pov[2]),
                classification |-> tier[1],
                reason |-> tier[2],
                error |-> "" ] ]


(***************************************************************************)
(* What the libraries can report about an image on disk.                   *)
(***************************************************************************)
Lab(l, sc) == [ label |-> l, score |-> sc ]

Det(c, sc) == [ class |-> c, score |-> sc ]

FalconsaiOutputs ==
    { [ raises |-> TRUE, out |-> <<>> ],
      [ raises |-> FALSE, out |-> << Lab("normal", 1000000), Lab("nsfw", 0) >> ],
      [ raises |-> FALSE, out |-> << Lab("normal", 800000), Lab("nsfw", 200000) >> ],
      [ raises |-> FALSE, out |-> << Lab("normal", 500130), Lab("nsfw", 499870) >> ],
      [ raises |-> FALSE, out |-> << Lab("sexy", 300000), Lab("porn", 600000),
                                     Lab("neutral", 100000) >> ],
      [ raises |-> FALSE, out |-> << Lab("NSFW", 1000000), Lab("normal", 0) >> ] }

NudenetOutputs ==
    { [ raises |-> TRUE, out |-> <<>> ],
      [ raises |-> FALSE, out |-> <<>> ],
      [ raises |-> FALSE, out |-> << Det("FACE_FEMALE", 900000) >> ],
      [ raises |-> FALSE, out |-> << Det("BELLY_EXPOSED", 249990) >> ],
      [ raises |-> FALSE, out |-> << Det("BELLY_EXPOSED", 250000) >> ],
      [ raises |-> FALSE, out |-> << Det("BUTTOCKS_EXPOSED", 600000) >> ],
      [ raises |-> FALSE, out |-> << Det("BUTTOCKS_EXPOSED", 600010) >> ],
      [ raises |-> FALSE, out |-> << Det("FEMALE_BREAST_COVERED", 400000),
                                     Det("FEMALE_BREAST_EXPOSED", 900000),
                                     Det("FACE_FEMALE", 950000) >> ] }

\* Faces <<x, y, w, h>> found in an image of 1000 x 1000 pixels.
FaceOutputs ==
    { [ raises |-> TRUE, out |-> <<>> ],
      [ raises |-> FALSE, out |-> <<>> ],
      [ raises |-> FALSE, out |-> << <<400, 300, 100, 200>> >> ],
      [ raises |-> FALSE, out |-> << <<400, 300, 122, 164>> >> ],
      [ raises |-> FALSE, out |-> << <<300, 100, 400, 300>> >> ],
      [ raises |-> FALSE, out |-> << <<10, 10, 50, 50>>, <<250, 50, 500, 500>> >> ] }

AestheticInputs ==
    { [ raises |-> TRUE, lap_var |-> 0, mean_gray |-> 0 ],
      [ raises |-> FALSE, lap_var |-> 250, mean_gray |-> 102 ] }

Blk(m, sk) == [ mosaic |-> m, skin |-> sk ]

MosaicInputs ==
    { [ raises |-> TRUE, blocks |-> <<>>, skin_pixels |-> 0, skin_lap_var |-> 0 ],
      [ raises |-> FALSE, skin_pixels |-> 5000, skin_lap_var |-> 100,
        blocks |-> << Blk(0, 50), Blk(0, 40), Blk(0, 30), Blk(0, 20) >> ],
      [ raises |-> FALSE, skin_pixels |-> 5000, skin_lap_var |-> 100,
        blocks |-> << Blk(1, 200), Blk(0, 40), Blk(3, 8), Blk(0, 0) >> ],
      [ raises |-> FALSE, skin_pixels |-> 5000, skin_lap_var |-> 100,
        blocks |-> << Blk(1, 50), Blk(2, 40), Blk(3, 8), Blk(0, 0) >> ],
      [ raises |-> FALSE, skin_pixels |-> 5000, skin_lap_var |-> 600,
        blocks |-> << Blk(0, 50), Blk(0, 40), Blk(0, 30), Blk(0, 20) >> ] }

SkinInputs ==
    { [ raises |-> FALSE, bottom |-> 50000, edge |-> 0,
        left |-> 50000, center |-> 50000, right |-> 50000 ],
      [ raises |-> FALSE, bottom |-> 600000, edge |-> 600000,
        left |-> 100000, center |-> 500000, right |-> 100000 ] }

\* An image that decodes, with the given library outputs.
GoodImage(ph, f, n, fc, ae, mo, sk) ==
    [ phash |-> ph, load |-> "ok", errmsg |-> "",
      falconsai |-> f, nudenet |-> n, w |-> 1000, h |-> 1000,
      faces |-> fc, aesthetic |-> ae, mosaic |-> mo, skin |-> sk ]

\* An image that PIL cannot open (load = "pil_error", raising with errmsg)
\* or for which cv2.imread returns None (load = "cv_none").
BadImage(ph, load, msg) ==
    [ phash |-> ph, load |-> load, errmsg |-> msg ]

ClassifyImages ==
    { GoodImage(NoHash, f, n, fc, ae, mo, sk) :
        f \in FalconsaiOutputs, n \in NudenetOutputs, fc \in FaceOutputs,
        ae \in AestheticInputs, mo \in MosaicInputs, sk \in SkinInputs }
    \cup { BadImage(NoHash, "pil_error", m) :
              m \in { "cannot identify image file", "" } }
    \cup { BadImage(NoHash, "cv_none", "") }


(***************************************************************************)
(* Perceptual-hash deduplication.                                          *)
(***************************************************************************)

\* Number of bits of a perceptual hash in the model (64 in imagehash).
HashBits == 3

\* Largest number of images in a directory.
MaxImages == 3

Bit(h, i) == (h \div (2 ^ i)) % 2

\* h - other_h of imagehash: the Hamming distance of two hashes.
RECURSIVE HammingFrom(_, _, _)
HammingFrom(a, b, i) ==
    IF i >= HashBits THEN 0
    ELSE (IF Bit(a, i) # Bit(b, i) THEN 1 ELSE 0) + HammingFrom(a, b, i + 1)

Hamming(a, b) == HammingFrom(a, b, 0)

\* compute_phash: None without imagehash or when the image cannot be hashed.
ComputePhash(path, available, d) ==
    IF ~available THEN NoHash ELSE d[Basename(path)].phash

\* MarkSimilar without the test that skips images whose hash is None.
RECURSIVE MarkSimilar_NoNoneCheck(_, _, _, _, _)
MarkSimilar_NoNoneCheck(hashes, i, j, used, threshold) ==
    IF j > Len(hashes) THEN used
    ELSE IF hashes[j].path \in used
         THEN MarkSimilar_NoNoneCheck(hashes, i, j + 1, used, threshold)
    ELSE IF Hamming(hashes[i].h, hashes[j].h) <= threshold
         THEN MarkSimilar_NoNoneCheck(hashes, i, j + 1,
                                      used \cup {hashes[j].path}, threshold)
    ELSE MarkSimilar_NoNoneCheck(hashes, i, j + 1, used, threshold)

\* The inner loop of deduplicate_images: mark the later images similar to i.
RECURSIVE MarkSimilar(_, _, _, _, _)
MarkSimilar(hashes, i, j, used, threshold) ==
    IF j > Len(hashes) THEN used
    ELSE IF hashes[j].path \in used \/ hashes[j].h = NoHash
         THEN MarkSimilar(hashes, i, j + 1, used, threshold)
    ELSE IF Hamming(hashes[i].h, hashes[j].h) <= threshold
         THEN MarkSimilar(hashes, i, j + 1, used \cup {hashes[j].path}, threshold)
    ELSE MarkSimilar(hashes, i, j + 1, used, threshold)

\* DedupLoop without the test that skips images already marked as used.
RECURSIVE DedupLoop_IgnoreUsed(_, _, _, _, _)
DedupLoop_IgnoreUsed(hashes, i, unique_images, used, threshold) ==
    IF i > Len(hashes) THEN unique_images
    ELSE IF hashes[i].h = NoHash
         THEN DedupLoop_IgnoreUsed(hashes, i + 1,
                                   Append(unique_images, hashes[i].path),
                                   used, threshold)
    ELSE DedupLoop_IgnoreUsed(hashes, i + 1,
                              Append(unique_images, hashes[i].path),
                              MarkSimilar(hashes, i, i + 1,
                                          used \cup {hashes[i].path}, threshold),
                              threshold)

\* The outer loop of deduplicate_images.
RECURSIVE DedupLoop(_, _, _, _, _)
DedupLoop(hashes, i, unique_images, used, threshold) ==
    IF i > Len(hashes) THEN unique_images
    ELSE IF hashes[i].path \in used
         THEN DedupLoop(hashes, i + 1, unique_images, used, threshold)
    ELSE IF hashes[i].h = NoHash
         THEN DedupLoop(hashes, i + 1, Append(unique_images, hashes[i].path),
                        used, threshold)
    ELSE DedupLoop(hashes, i + 1, Append(unique_images, hashes[i].path),
                   MarkSimilar(hashes, i, i + 1, used \cup {hashes[i].path},
                               threshold),
                   threshold)

\* deduplicate_images marking only the distances strictly below the
\* threshold.
DeduplicateImages_BelowThreshold(files, threshold, available, d) ==
    IF ~available THEN files
    ELSE IF Len(files) <= 1 THEN files
    ELSE LET hashes == [ i \in 1 .. Len(files) |->
                           [ path |-> files[i],
                             h |-> ComputePhash(files[i], available, d) ] ]
         IN  DedupLoop(hashes, 1, <<>>, {}, threshold - 1)

DeduplicateImages(files, threshold, available, d) ==
    IF ~available THEN files
    ELSE IF Len(files) <= 1 THEN files
    ELSE LET hashes == [ i \in 1 .. Len(files) |->
                           [ path |-> files[i],
                             h |-> ComputePhash(files[i], available, d) ] ]
         IN  DedupLoop(hashes, 1, <<>>, {}, threshold)

(***************************************************************************)
(* get_image_files.  File names are 1, 2, ... in lexicographic order; a    *)
(* directory d holds the names 1 .. Len(d).                                *)
(***************************************************************************)
InputDir == "in"

\* The set of paths collected from the glob patterns of the directory.
GlobFiles(d) == { <<InputDir, i>> : i \in 1 .. Len(d) }

\* sorted(files) with the order reversed.
RECURSIVE SortPaths_Descending(_)
SortPaths_Descending(files) ==
    IF files = {} THEN <<>>
    ELSE LET last == CHOOSE p \in files : \A q \in files : p[2] >= q[2]
         IN  <<last>> \o SortPaths_Descending(files \ {last})

\* sorted(files): the paths of the set in ascending order of their names.
RECURSIVE SortPaths(_)
SortPaths(files) ==
    IF files = {} THEN <<>>
    ELSE LET first == CHOOSE p \in files : \A q \in files : p[2] <= q[2]
         IN  <<first>> \o SortPaths(files \ {first})

GetImageFiles(input, d) ==
    IF input = "file" THEN << <<InputDir, 1>> >>
    ELSE IF input = "dir" THEN SortPaths(GlobFiles(d))
    ELSE <<>>


(***************************************************************************)
(* The image selector with the smart blur fallback                         *)
(* (_seo_worker/python/image_selector.py) and the check of the blurred     *)
(* files (_seo_worker/python/verify_nsfw.py).                              *)
(***************************************************************************)

\* NudeNet labels whose regions SmartBlur blurs.
BLUR_LABELS ==
    { "EXPOSED_BREAST_F", "EXPOSED_GENITALIA_F", "EXPOSED_GENITALIA_M",
      "EXPOSED_BUTTOCKS", "EXPOSED_ANUS", "COVERED_BREAST_F" }

\* ImageSelector.NSFW_THRESHOLD and NSFW_THRESHOLD of verify_nsfw.py.
SELECTOR_NSFW_THRESHOLD == 300000

\* ImageSelector.MIN_FACE_SCORE
SELECTOR_MIN_FACE_SCORE == 200000

\* ImageSelector.GALLERY_COUNT
GALLERY_COUNT == 12

\* round(x, 3): the nearest multiple of 0.001, ties to even.
Round3(x) ==
    LET q == x \div 1000
        r == x % 1000
    IN  IF r < 500 THEN q * 1000
        ELSE IF r > 500 THEN (q + 1) * 1000
        ELSE IF q % 2 = 0 THEN q * 1000 ELSE (q + 1) * 1000

\* Path(filename).stem of a file name given as its dot-separated pieces
\* (<<"009", ".jpg">>): the name without its last suffix.
Stem(filename) ==
    IF Len(filename) > 1 THEN SubSeq(filename, 1, Len(filename) - 1)
    ELSE filename

\* os.path.basename(url.split("?")[0])
UrlFilename(url) == url.name

\* The path "no file" of a score that was not blurred.
NoPath == [ dir |-> None, name |-> <<>> ]

\* self.output_dir / f"{Path(filename).stem}_blurred.jpg"
BlurredPath(output_dir, filename) ==
    [ dir |-> output_dir, name |-> Append(Stem(filename), "_blurred.jpg") ]

\* SmartBlur.__init__
NewSmartBlur(output_dir) ==
    [ present |-> TRUE, output_dir |-> output_dir, detector |-> None,
      loaded |-> FALSE ]

\* self.smart_blur = None of a selector built with enable_blur = False.
NoSmartBlur ==
    [ present |-> FALSE, output_dir |-> None, detector |-> None,
      loaded |-> FALSE ]

\* SmartBlur.load_model; nudenet is the outcome of NudeDetector() (None when
\* it raises).
LoadModel(sb, nudenet) ==
    IF sb.loaded THEN sb
    ELSE IF nudenet = None THEN sb
    ELSE [ sb EXCEPT !.detector = nudenet, !.loaded = TRUE ]

\* The filter of detect_nsfw_regions: detections with a blur label and a
\* score above 0.3, with the box [x, y, w, h] turned into [x1, y1, x2, y2].
RECURSIVE FilterRegions(_, _)
FilterRegions(dets, i) ==
    IF i > Len(dets) THEN <<>>
    ELSE LET det == dets[i]
             rest == FilterRegions(dets, i + 1)
         IN  IF det.class \in BLUR_LABELS /\ det.score > 300000
             THEN << [ label |-> det.class,
                       box |-> << det.box[1], det.box[2],
                                  det.box[1] + det.box[3],
                                  det.box[2] + det.box[4] >>,
                       score |-> det.score ] >> \o rest
             ELSE rest

\* SmartBlur.detect_nsfw_regions
DetectNsfwRegions(sb, image) ==
    IF sb.detector = None THEN <<>>
    ELSE IF image.nudenet.raises THEN <<>>
    ELSE FilterRegions(image.nudenet.out, 1)

\* The box of a region grown by 60% of its size on every side and clipped to
\* the image.
ExpandBox(box, img_w, img_h) ==
    LET expand_w == ((box[3] - box[1]) * 6) \div 10
        expand_h == ((box[4] - box[2]) * 6) \div 10
    IN  << Max(0, box[1] - expand_w), Max(0, box[2] - expand_h),
           Min(img_w, box[3] + expand_w), Min(img_h, box[4] + expand_h) >>

\* The layers blur_regions puts on a region of roi_w x roi_h pixels, in the
\* order they are applied: seven Gaussian blurs, the pixelation when the
\* region is large enough for it, the desaturation and the gray overlay.
RedactionStack(roi_w, roi_h) ==
    [ k \in 1 .. 7 |-> "gaussian_blur" ]
    \o ( IF roi_w > 10 /\ roi_h > 10 /\ Max(roi_w, roi_h) \div 6 > 1
         THEN << "pixelation" >> ELSE <<>> )
    \o << "desaturation", "gray_overlay" >>

\* The loop of blur_regions: the areas of the image that are overwritten,
\* each with the layers it received.
RECURSIVE BlurredAreas(_, _, _, _)
BlurredAreas(regions, i, img_w, img_h) ==
    IF i > Len(regions) THEN <<>>
    ELSE LET b == ExpandBox(regions[i].box, img_w, img_h)
             rest == BlurredAreas(regions, i + 1, img_w, img_h)
         IN  IF b[3] <= b[1] \/ b[4] <= b[2] THEN rest
             ELSE << [ box |-> b,
                       layers |-> RedactionStack(b[3] - b[1], b[4] - b[2]) ] >>
                  \o rest

\* SmartBlur.blur_regions: the image with the regions overwritten.
BlurRegions(image, regions) ==
    IF Len(regions) = 0 THEN image
    ELSE [ image EXCEPT
             !.blurred = @ \o BlurredAreas(regions, 1, image.w, image.h) ]

\* process_image without the early return on an empty list of regions.
ProcessImage_NoEmptyCheck(sb, image, filename, nudenet) ==
    LET sb1 == IF ~sb.loaded THEN LoadModel(sb, nudenet) ELSE sb
        regions == DetectNsfwRegions(sb1, image)
        output_path == BlurredPath(sb1.output_dir, filename)
    IN  IF sb1.detector = None
        THEN [ sb |-> sb1, ret |-> <<FALSE, NoPath>>, saved |-> FALSE,
               path |-> NoPath, file |-> image ]
        ELSE [ sb |-> sb1, ret |-> <<TRUE, output_path>>, saved |-> TRUE,
               path |-> output_path, file |-> BlurRegions(image, regions) ]

\* SmartBlur.process_image: the object after the call, the returned pair
\* <<was_blurred, output_path>> and the file saved (under key "path" when
\* "saved" is TRUE).
ProcessImage(sb, image, filename, nudenet) ==
    LET sb1 == IF ~sb.loaded THEN LoadModel(sb, nudenet) ELSE sb
        regions == DetectNsfwRegions(sb1, image)
        output_path == BlurredPath(sb1.output_dir, filename)
    IN  IF sb1.detector = None
        THEN [ sb |-> sb1, ret |-> <<FALSE, NoPath>>, saved |-> FALSE,
               path |-> NoPath, file |-> image ]
        ELSE IF Len(regions) = 0
        THEN [ sb |-> sb1, ret |-> <<FALSE, NoPath>>, saved |-> FALSE,
               path |-> NoPath, file |-> image ]
        ELSE [ sb |-> sb1, ret |-> <<TRUE, output_path>>, saved |-> TRUE,
               path |-> output_path, file |-> BlurRegions(image, regions) ]

\* ImageSelector.__init__
NewImageSelector(enable_blur) ==
    [ nsfw_model |-> None, clip_model |-> None, face_cascade |-> None,
      loaded |-> FALSE, enable_blur |-> enable_blur,
      smart_blur |-> IF enable_blur THEN NewSmartBlur("output/blurred")
                     ELSE NoSmartBlur,
      image_cache |-> <<>> ]

\* ImageSelector.load_models; the arguments are the outcomes of the four
\* loads (None when a load raises).
LoadModels(sel, nsfw, cascade, clip, nudenet) ==
    IF sel.loaded THEN sel
    ELSE [ sel EXCEPT
             !.nsfw_model = nsfw,
             !.face_cascade = cascade,
             !.clip_model = clip,
             !.smart_blur = IF @.present THEN LoadModel(@, nudenet) ELSE @,
             !.loaded = TRUE ]

\* What the Falconsai pipeline returns on an image: the output on the
\* original pixels, or the output on the pixels after the blur.
FalconsaiOn(image) ==
    IF Len(image.blurred) > 0 THEN image.falconsai_blurred ELSE image.falconsai

\* ImageSelector._score_nsfw
SelectorScoreNsfw(model, image) ==
    IF model = None THEN 0
    ELSE IF FalconsaiOn(image).raises THEN 500000
    ELSE FirstNsfwScore(FalconsaiOn(image).out, 1)

\* ImageSelector._score_face
SelectorScoreFace(cascade, image) ==
    IF cascade = None THEN 300000
    ELSE IF image.faces.raises THEN 300000
    ELSE IF Len(image.faces.out) = 0 THEN 0
    ELSE Min(ONE, MaxFaceRatio(image.faces.out, image, 1, 0) * 12)

\* ImageSelector._score_aesthetic from the mean CLIP similarities to the
\* positive and to the negative prompts.
SelectorScoreAesthetic(clip, image) ==
    IF clip = None THEN 500000
    ELSE IF image.clip.raises THEN 500000
    ELSE Max(0, Min(ONE, (image.clip.pos - image.clip.neg + ONE) \div 2))

\* ImageSelector.score_image on an image that loaded.
ScoreImage(sel, url, image) ==
    LET nsfw_score == SelectorScoreNsfw(sel.nsfw_model, image)
        face_score == SelectorScoreFace(sel.face_cascade, image)
        aesthetic_score == SelectorScoreAesthetic(sel.clip_model, image)
        is_safe == nsfw_score < SELECTOR_NSFW_THRESHOLD
        combined == IF is_safe
                    THEN (4 * (ONE - nsfw_score) + 3 * face_score
                          + 3 * aesthetic_score) \div 10
                    ELSE (3 * face_score + 3 * aesthetic_score) \div 20
    IN  [ url |-> url, filename |-> UrlFilename(url),
          nsfw_score |-> Round3(nsfw_score),
          face_score |-> Round3(face_score),
          aesthetic_score |-> Round3(aesthetic_score),
          combined_score |-> Round3(combined),
          is_safe |-> is_safe, is_blurred |-> FALSE, blurred_path |-> NoPath ]

\* The scoring loop of select_images: the scores of the urls that load.
RECURSIVE ScoreAll(_, _, _, _)
ScoreAll(sel, image_urls, w, i) ==
    IF i > Len(image_urls) THEN <<>>
    ELSE LET rest == ScoreAll(sel, image_urls, w, i + 1)
         IN  IF w[image_urls[i]].loads
             THEN << ScoreImage(sel, image_urls[i], w[image_urls[i]]) >> \o rest
             ELSE rest

\* _load_image: the images cached while scoring.
CacheAll(image_urls, w) ==
    [ u \in { image_urls[i] : i \in { j \in 1 .. Len(image_urls) :
                                       w[image_urls[j]].loads } } |-> w[u] ]

\* [s for s in scores if s.is_safe == flag]
RECURSIVE FilterSafe(_, _, _)
FilterSafe(scores, flag, i) ==
    IF i > Len(scores) THEN <<>>
    ELSE (IF scores[i].is_safe = flag THEN << scores[i] >> ELSE <<>>)
         \o FilterSafe(scores, flag, i + 1)

\* [s for s in scores if s.face_score >= bound] (strictly above when strict)
RECURSIVE FilterFace(_, _, _, _)
FilterFace(scores, bound, strict, i) ==
    IF i > Len(scores) THEN <<>>
    ELSE (IF scores[i].face_score > bound
             \/ (~strict /\ scores[i].face_score = bound)
          THEN << scores[i] >> ELSE <<>>)
         \o FilterFace(scores, bound, strict, i + 1)

\* list.sort(key=..., reverse=True) on <<key, item>> pairs: descending and
\* stable.
InsertDesc(sorted, p) ==
    LET n == Cardinality({ i \in 1 .. Len(sorted) : sorted[i][1] >= p[1] })
    IN  SubSeq(sorted, 1, n) \o <<p>> \o SubSeq(sorted, n + 1, Len(sorted))

RECURSIVE SortDescFrom(_, _, _)
SortDescFrom(pairs, i, sorted) ==
    IF i > Len(pairs) THEN sorted
    ELSE SortDescFrom(pairs, i + 1, InsertDesc(sorted, pairs[i]))

SortDesc(pairs) == [ i \in 1 .. Len(pairs) |-> SortDescFrom(pairs, 1, <<>>)[i][2] ]

SortByBlurKey(scores) ==
    SortDesc([ i \in 1 .. Len(scores) |->
                 << scores[i].face_score * 2 + scores[i].aesthetic_score,
                    scores[i] >> ])

SortByAesthetic(scores) ==
    SortDesc([ i \in 1 .. Len(scores) |->
                 << scores[i].aesthetic_score, scores[i] >> ])

SortByCombined(scores) ==
    SortDesc([ i \in 1 .. Len(scores) |->
                 << scores[i].combined_score, scores[i] >> ])

\* max(scores, key=combined_score): the first of the maxima.
MaxCombined(scores) ==
    scores[ CHOOSE i \in 1 .. Len(scores) :
              /\ \A j \in 1 .. Len(scores) :
                    scores[j].combined_score <= scores[i].combined_score
              /\ \A j \in 1 .. (i - 1) :
                    scores[j].combined_score < scores[i].combined_score ]

\* The cover chosen by select_images, as <<found, score>>.
SelectCover(safe_scores) ==
    LET cover_candidates ==
            FilterFace(safe_scores, SELECTOR_MIN_FACE_SCORE, FALSE, 1)
    IN  IF Len(cover_candidates) > 0
        THEN << TRUE, MaxCombined(cover_candidates) >>
        ELSE IF Len(safe_scores) > 0
        THEN << TRUE, MaxCombined(safe_scores) >>
        ELSE << FALSE, NoPath >>

\* candidates[0::step] cut at count items.
RECURSIVE EveryNth(_, _, _, _)
EveryNth(candidates, i, step, count) ==
    IF i > Len(candidates) \/ count = 0 THEN <<>>
    ELSE << candidates[i] >> \o EveryNth(candidates, i + step, step, count - 1)

\* [s for s in scores if exclude is None or s.url != exclude.url]
RECURSIVE ExcludeUrl(_, _, _)
ExcludeUrl(scores, cover, i) ==
    IF i > Len(scores) THEN <<>>
    ELSE (IF ~cover[1] \/ scores[i].url # cover[2].url
          THEN << scores[i] >> ELSE <<>>)
         \o ExcludeUrl(scores, cover, i + 1)

\* ImageSelector._select_diverse_gallery
SelectDiverseGallery(scores, count, cover) ==
    LET candidates == ExcludeUrl(scores, cover, 1) IN
    IF Len(candidates) <= count THEN candidates
    ELSE LET step == Max(1, Len(candidates) \div count)
             selected == SortByCombined(EveryNth(candidates, 1, step, count))
         IN  SubSeq(selected, 1, Min(count, Len(selected)))

\* The blur loop of select_images over nsfw_scores[:needed * 2]: the gallery,
\* the counter, the SmartBlur object and the files saved so far.
RECURSIVE BlurLoop(_, _, _, _, _, _, _)
BlurLoop(todo, i, gallery_count, cache, nudenet, acc, limit) ==
    IF i > limit \/ i > Len(todo) THEN acc
    ELSE IF Len(acc.gallery) >= gallery_count THEN acc
    ELSE LET nsfw_img == todo[i] IN
         IF nsfw_img.url \notin DOMAIN cache
         THEN BlurLoop(todo, i + 1, gallery_count, cache, nudenet, acc, limit)
         ELSE LET p == ProcessImage(acc.sb, cache[nsfw_img.url],
                                    nsfw_img.filename, nudenet)
                  blurred_score == [ nsfw_img EXCEPT !.is_safe = TRUE,
                                                     !.is_blurred = TRUE,
                                                     !.blurred_path = p.ret[2] ]
              IN  BlurLoop(todo, i + 1, gallery_count, cache, nudenet,
                           IF p.ret[1]
                           THEN [ gallery |-> Append(acc.gallery, blurred_score),
                                  blurred_count |-> acc.blurred_count + 1,
                                  sb |-> p.sb,
                                  files |-> (p.path :> p.file) @@ acc.files ]
                           ELSE [ acc EXCEPT !.sb = p.sb ],
                           limit)

\* select_images that leaves the cache as it is.
ClearCache_Keeps(image_cache) == image_cache

\* self._image_cache.clear()
ClearCache(image_cache) == <<>>

\* ImageSelector.select_images on a selector whose models are loaded: the
\* SelectionResult (the elapsed time is not modelled), the selector after the
\* call and the blur directory after the call.
SelectImages(sel, image_urls, count_arg, w, files, nudenet) ==
    LET gallery_count == IF count_arg = 0 THEN GALLERY_COUNT ELSE count_arg
        scores == ScoreAll(sel, image_urls, w, 1)
        cache == CacheAll(image_urls, w)
        safe_scores == FilterSafe(scores, TRUE, 1)
        nsfw_scores == SortByBlurKey(FilterSafe(scores, FALSE, 1))
        cover == SelectCover(safe_scores)
        with_face == FilterFace(safe_scores, 0, TRUE, 1)
        gallery_candidates == IF Len(with_face) = 0
                              THEN SortByAesthetic(safe_scores) ELSE with_face
        gallery == SelectDiverseGallery(gallery_candidates, gallery_count, cover)
        start == [ gallery |-> gallery, blurred_count |-> 0,
                   sb |-> sel.smart_blur, files |-> files ]
        done == IF sel.enable_blur /\ sel.smart_blur.present
                   /\ Len(gallery) < gallery_count
                THEN BlurLoop(nsfw_scores, 1, gallery_count, cache, nudenet,
                              start, (gallery_count - Len(gallery)) * 2)
                ELSE start
    IN  [ selection |->
            [ returned |-> TRUE, has_cover |-> cover[1], cover |-> cover[2],
              gallery |-> done.gallery, total_images |-> Len(scores),
              safe_images |-> Len(safe_scores),
              blurred_images |-> done.blurred_count ],
          selector |-> [ sel EXCEPT !.smart_blur = done.sb,
                                    !.image_cache =
                                        ClearCache(cache @@ sel.image_cache) ],
          files |-> done.files ]

\* The loop of verify_nsfw.py over the files of the blur directory: the
\* score is that of the first NSFW label, a file passes below the threshold.
VerifyScore(file) == FirstNsfwScore(FalconsaiOn(file).out, 1)

VerifyNsfw(files) ==
    LET passed == { p \in DOMAIN files :
                      VerifyScore(files[p]) < SELECTOR_NSFW_THRESHOLD }
    IN  [ ran |-> TRUE, passed |-> Cardinality(passed),
          failed |-> Cardinality(DOMAIN files \ passed) ]

NoCall == [ called |-> FALSE ]

NoSelection == [ returned |-> FALSE ]

NoVerify == [ ran |-> FALSE ]


(***************************************************************************)
(* Command-line arguments and the initial state.                           *)
(***************************************************************************)
DefaultArgs ==
    [ input |-> "dir", threshold |-> NSFW_DEFAULT,
      super_safe_threshold |-> SUPER_SAFE_DEFAULT,
      min_face_score |-> MIN_FACE_DEFAULT,
      skip_mosaic |-> FALSE, skip_pov |-> FALSE, skip_dedup |-> FALSE,
      dedup_threshold |-> PHASH_THRESHOLD, output |-> None ]

ZeroCounters ==
    [ super_safe_count |-> 0, safe_count |-> 0, nsfw_count |-> 0,
      error_count |-> 0, mosaic_count |-> 0, pov_count |-> 0,
      total_nsfw_score |-> 0, total_face_score |-> 0 ]

NoResult == [ classification |-> "none" ]

NoReport == [ returned |-> FALSE ]

\* The exit status of a process that has not exited.
Running == 0 - 1

\* No earlier run of the command.
NoPrev == [ ran |-> FALSE ]

\* The batch classifier and main() before the run.
InitBatchState ==
    /\ NSFW_THRESHOLD = NSFW_DEFAULT
    /\ SUPER_SAFE_THRESHOLD = SUPER_SAFE_DEFAULT
    /\ MIN_FACE_SCORE = MIN_FACE_DEFAULT
    /\ classifier = NewClassifier
    /\ args = DefaultArgs
    /\ image_files = <<>>
    /\ original_count = 0
    /\ dedup_removed = 0
    /\ idx = 0
    /\ results = <<>>
    /\ results_order = <<>>
    /\ counters = ZeroCounters
    /\ report = NoReport
    /\ locals = NoLocals
    /\ result = NoResult
    /\ dedup_in = <<>>
    /\ dedup_out = <<>>
    /\ dedup_again = <<>>
    /\ stdout = <<>>
    /\ exit_code = Running
    /\ output_file = NoReport
    /\ prev = NoPrev

InitCommon ==
    /\ InitBatchState
    /\ selector = NewImageSelector(TRUE)
    /\ web = <<>>
    /\ blur_dir = <<>>
    /\ blur_call = NoCall
    /\ selection = NoSelection
    /\ verify = NoVerify

\* json.dumps({"error": msg})
ErrorJson(msg) == [ error |-> msg ]

\* json.dumps(result) of the dict returned by classify_batch.
ReportJson(rep) ==
    [ results |-> rep.results, stats |-> rep.stats,
      output_path |-> rep.output_path ]

(***************************************************************************)
(* main(): overwrite the global thresholds from the arguments and validate *)
(* the input path; a missing path prints the error object and exits 1.     *)
(***************************************************************************)
Main(a) ==
    /\ pc = "main"
    /\ a.input = "file" => Len(disk) >= 1
    /\ args' = a
    /\ NSFW_THRESHOLD' = a.threshold
    /\ SUPER_SAFE_THRESHOLD' = a.super_safe_threshold
    /\ MIN_FACE_SCORE' = a.min_face_score
    /\ IF a.input = "missing"
       THEN /\ stdout' = Append(stdout, ErrorJson("Input path does not exist"))
            /\ exit_code' = 1
            /\ pc' = "exited"
       ELSE /\ pc' = "run"
            /\ UNCHANGED << stdout, exit_code >>
    /\ UNCHANGED << IMAGEHASH_AVAILABLE, classifier, disk, image_files,
                    original_count, dedup_removed, idx, results, results_order, counters,
                    report, locals, result, dedup_in, dedup_out, dedup_again,
                    output_file, prev, selVars >>

(***************************************************************************)
(* One image through NSFWClassifier: construct, set the skip flags, load,  *)
(* classify.                                                               *)
(***************************************************************************)
\* Runs with the default thresholds.

MainClassify ==
    \E sm \in BOOLEAN, sp \in BOOLEAN :
        Main([ DefaultArgs EXCEPT !.skip_mosaic = sm, !.skip_pov = sp ])

\* Runs with --threshold, --super-safe-threshold and --min-face-score given.
MainConfigured ==
    \E t \in { NSFW_DEFAULT, 100000 }, s \in { SUPER_SAFE_DEFAULT, 400000 },
       m \in { MIN_FACE_DEFAULT, 500000 }, sp \in BOOLEAN :
        Main([ DefaultArgs EXCEPT !.threshold = t, !.super_safe_threshold = s,
                                  !.min_face_score = m, !.skip_pov = sp ])

LoadClassifier ==
    /\ pc = "run"
    /\ \E f \in Handles, n \in Handles, c \in Handles :
         classifier' = Load([ NewClassifier EXCEPT
                                !.skip_mosaic = args.skip_mosaic,
                                !.skip_pov = args.skip_pov ], f, n, c)
    /\ pc' = "loaded"
    /\ UNCHANGED << NSFW_THRESHOLD, SUPER_SAFE_THRESHOLD, MIN_FACE_SCORE,
                    IMAGEHASH_AVAILABLE, disk, args, image_files,
                    original_count, dedup_removed, idx, results, results_order, counters,
                    report, locals, result, dedup_in, dedup_out, dedup_again,
                    cliVars, selVars >>

ClassifyOne ==
    /\ pc = "loaded"
    /\ \E img \in ClassifyImages :
         LET r == Classify(classifier, <<InputDir, 1>>, img, NSFW_THRESHOLD,
                           SUPER_SAFE_THRESHOLD, MIN_FACE_SCORE)
         IN  /\ locals' = r.locals
             /\ result' = r.result
    /\ pc' = "classified"
    /\ UNCHANGED << NSFW_THRESHOLD, SUPER_SAFE_THRESHOLD, MIN_FACE_SCORE,
                    IMAGEHASH_AVAILABLE, classifier, disk, args, image_files,
                    original_count, dedup_removed, idx, results, results_order, counters,
                    report, dedup_in, dedup_out, dedup_again,
                    cliVars, selVars >>

InitClassify ==
    /\ InitCommon
    /\ pc = "main"
    /\ disk = <<>>
    /\ IMAGEHASH_AVAILABLE = TRUE

NextClassify == MainClassify \/ LoadClassifier \/ ClassifyOne

SpecClassify == InitClassify /\ [][NextClassify]_vars

NextConfigured == MainConfigured \/ LoadClassifier \/ ClassifyOne

SpecConfigured == InitClassify /\ [][NextConfigured]_vars


(***************************************************************************)
(* deduplicate_images on the files of a directory, then on its own output. *)
(***************************************************************************)

\* An image that decodes and shows nothing of note, with perceptual hash ph.
PlainImage(ph) ==
    GoodImage(ph,
              [ raises |-> FALSE, out |-> << Lab("normal", 1000000), Lab("nsfw", 0) >> ],
              [ raises |-> FALSE, out |-> <<>> ],
              [ raises |-> FALSE, out |-> << <<300, 100, 400, 300>> >> ],
              [ raises |-> FALSE, lap_var |-> 250, mean_gray |-> 102 ],
              [ raises |-> FALSE, skin_pixels |-> 5000, skin_lap_var |-> 100,
                blocks |-> << Blk(0, 50), Blk(0, 40), Blk(0, 30), Blk(0, 20) >> ],
              [ raises |-> FALSE, bottom |-> 50000, edge |-> 0,
                left |-> 50000, center |-> 50000, right |-> 50000 ])

\* The directory holds up to MaxImages images, with every combination of
\* hashes (NoHash: the image cannot be hashed).
InitDedup ==
    /\ InitCommon
    /\ pc = "dedup"
    /\ disk \in UNION { [ 1 .. n -> { PlainImage(h) :
                                     h \in (0 .. (2 ^ HashBits - 1)) \cup {NoHash} } ] :
                       n \in 0 .. MaxImages }
    /\ IMAGEHASH_AVAILABLE \in BOOLEAN

DedupFirst ==
    /\ pc = "dedup"
    /\ \E t \in { 0 - 1, 0, 1, 2, PHASH_THRESHOLD } :
         /\ args' = [ args EXCEPT !.dedup_threshold = t ]
         /\ dedup_in' = GetImageFiles("dir", disk)
         /\ dedup_out' = DeduplicateImages(GetImageFiles("dir", disk), t,
                                           IMAGEHASH_AVAILABLE, disk)
    /\ pc' = "deduped"
    /\ UNCHANGED << NSFW_THRESHOLD, SUPER_SAFE_THRESHOLD, MIN_FACE_SCORE,
                    IMAGEHASH_AVAILABLE, classifier, disk, image_files,
                    original_count, dedup_removed, idx, results, results_order, counters,
                    report, locals, result, dedup_again,
                    cliVars, selVars >>

DedupSecond ==
    /\ pc = "deduped"
    /\ dedup_again' = DeduplicateImages(dedup_out, args.dedup_threshold,
                                        IMAGEHASH_AVAILABLE, disk)
    /\ pc' = "rededuped"
    /\ UNCHANGED << NSFW_THRESHOLD, SUPER_SAFE_THRESHOLD, MIN_FACE_SCORE,
                    IMAGEHASH_AVAILABLE, classifier, disk, args, image_files,
                    original_count, dedup_removed, idx, results, results_order, counters,
                    report, locals, result, dedup_in, dedup_out,
                    cliVars, selVars >>

NextDedup == DedupFirst \/ DedupSecond

SpecDedup == InitDedup /\ [][NextDedup]_vars

(***************************************************************************)
(* classify_batch, called from main().                                     *)
(***************************************************************************)

\* Largest number of images in the input directory of a batch.
MaxBatch == 3

\* dict.get(key, default)
Get(rec, key, default) == IF key \in DOMAIN rec THEN rec[key] ELSE default

\* results = {filename: result}: the earlier entries are lost.
StoreResult_OnlyLast(res, r) == (r.filename :> r)

\* results[filename] = result
StoreResult(res, r) == (r.filename :> r) @@ res

\* The order of the keys of the dict after results[filename] = result: a new
\* key goes to the end, a key already present keeps its place.
StoreOrder(order, r) ==
    IF \E k \in 1 .. Len(order) : order[k] = r.filename THEN order
    ELSE Append(order, r.filename)

\* CountResult with "if" in place of "elif" after the error test.
CountResult_ErrorFallsThrough(c, r) ==
    LET tier == IF r.is_super_safe THEN "super_safe_count"
                ELSE IF r.is_safe THEN "safe_count"
                ELSE "nsfw_count"
    IN  [ c EXCEPT
            !.error_count = IF r.error # "" THEN @ + 1 ELSE @,
            ![tier] = @ + 1,
            !.mosaic_count = IF Get(r, "mosaic_detected", FALSE) THEN @ + 1 ELSE @,
            !.pov_count = IF Get(r, "pov_detected", FALSE) THEN @ + 1 ELSE @,
            !.total_nsfw_score = @ + r.nsfw_score,
            !.total_face_score = @ + r.face_score ]

\* The counting of one result in the loop of classify_batch.
CountResult(c, r) ==
    LET tier == IF r.error # "" THEN "error_count"
                ELSE IF r.is_super_safe THEN "super_safe_count"
                ELSE IF r.is_safe THEN "safe_count"
                ELSE "nsfw_count"
    IN  [ c EXCEPT
            ![tier] = @ + 1,
            !.mosaic_count = IF Get(r, "mosaic_detected", FALSE) THEN @ + 1 ELSE @,
            !.pov_count = IF Get(r, "pov_detected", FALSE) THEN @ + 1 ELSE @,
            !.total_nsfw_score = @ + r.nsfw_score,
            !.total_face_score = @ + r.face_score ]

\* The report returned when get_image_files finds nothing.
EmptyReport(input) ==
    [ returned |-> TRUE,
      results |-> <<>>,
      stats |-> [ total_images |-> 0, super_safe_count |-> 0, safe_count |-> 0,
                  nsfw_count |-> 0, error_count |-> 0, mosaic_count |-> 0,
                  pov_count |-> 0, avg_nsfw_score |-> 0, avg_face_score |-> 0,
                  processing_time_sec |-> 0 ],
      output_path |-> input ]

\* The report returned after the loop (the elapsed time is not modelled).
FullReport(input, files, res, c, original, removed) ==
    LET total_images == Len(files) IN
    [ returned |-> TRUE,
      results |-> res,
      stats |-> [ total_images |-> total_images,
                  original_images |-> original,
                  duplicates_removed |-> removed,
                  super_safe_count |-> c.super_safe_count,
                  safe_count |-> c.safe_count,
                  nsfw_count |-> c.nsfw_count,
                  error_count |-> c.error_count,
                  mosaic_count |-> c.mosaic_count,
                  pov_count |-> c.pov_count,
                  avg_nsfw_score |->
                      IF total_images > 0
                      THEN Round4(c.total_nsfw_score \div total_images) ELSE 0,
                  avg_face_score |->
                      IF total_images > 0
                      THEN Round4(c.total_face_score \div total_images) ELSE 0,
                  processing_time_sec |-> 0 ],
      output_path |-> input ]

\* The images a batch directory can hold: a clean portrait, an explicit
\* image, an explicit image in POV composition, a censored close portrait on
\* which both NSFW models and the skin analysis of the POV detector raise, an
\* image on which the face, aesthetic and mosaic extractors raise, an image
\* only OpenCV cannot read, and files PIL cannot open.
BatchImages ==
    { PlainImage(0),
      GoodImage(1,
                [ raises |-> FALSE, out |-> << Lab("sexy", 200000), Lab("porn", 700000),
                                               Lab("neutral", 100000) >> ],
                [ raises |-> FALSE, out |-> << Det("FEMALE_BREAST_EXPOSED", 900000) >> ],
                [ raises |-> FALSE, out |-> <<>> ],
                [ raises |-> FALSE, lap_var |-> 250, mean_gray |-> 102 ],
                [ raises |-> FALSE, skin_pixels |-> 5000, skin_lap_var |-> 100,
                  blocks |-> << Blk(0, 50), Blk(0, 40), Blk(0, 30), Blk(0, 20) >> ],
                [ raises |-> FALSE, bottom |-> 50000, edge |-> 0,
                  left |-> 50000, center |-> 50000, right |-> 50000 ]),
      GoodImage(3,
                [ raises |-> FALSE, out |-> << Lab("normal", 800000), Lab("nsfw", 200000) >> ],
                [ raises |-> FALSE, out |-> << Det("FEMALE_BREAST_EXPOSED", 900000) >> ],
                [ raises |-> FALSE, out |-> << <<250, 50, 500, 500>> >> ],
                [ raises |-> FALSE, lap_var |-> 250, mean_gray |-> 102 ],
                [ raises |-> FALSE, skin_pixels |-> 5000, skin_lap_var |-> 100,
                  blocks |-> << Blk(0, 50), Blk(0, 40), Blk(0, 30), Blk(0, 20) >> ],
                [ raises |-> FALSE, bottom |-> 600000, edge |-> 600000,
                  left |-> 100000, center |-> 500000, right |-> 100000 ]),
      GoodImage(7,
                [ raises |-> TRUE, out |-> <<>> ],
                [ raises |-> TRUE, out |-> <<>> ],
                [ raises |-> FALSE, out |-> << <<250, 50, 500, 500>> >> ],
                [ raises |-> FALSE, lap_var |-> 250, mean_gray |-> 102 ],
                [ raises |-> FALSE, skin_pixels |-> 5000, skin_lap_var |-> 100,
                  blocks |-> << Blk(1, 50), Blk(2, 40), Blk(3, 8), Blk(0, 0) >> ],
                [ raises |-> TRUE, bottom |-> 0, edge |-> 0,
                  left |-> 0, center |-> 0, right |-> 0 ]),
      GoodImage(5,
                [ raises |-> FALSE, out |-> << Lab("normal", 800000), Lab("nsfw", 200000) >> ],
                [ raises |-> FALSE, out |-> << Det("BELLY_EXPOSED", 250000) >> ],
                [ raises |-> TRUE, out |-> <<>> ],
                [ raises |-> TRUE, lap_var |-> 0, mean_gray |-> 0 ],
                [ raises |-> TRUE, blocks |-> <<>>, skin_pixels |-> 0, skin_lap_var |-> 0 ],
                [ raises |-> FALSE, bottom |-> 50000, edge |-> 0,
                  left |-> 50000, center |-> 50000, right |-> 50000 ]),
      BadImage(6, "cv_none", ""),
      BadImage(NoHash, "pil_error", "cannot identify image file"),
      BadImage(NoHash, "pil_error", "") }

\* open(path, 'w') succeeds.
Writable(path) == path = "report.json"

MainBatch ==
    \E a \in { [ DefaultArgs EXCEPT !.input = i, !.skip_dedup = sd,
                                    !.dedup_threshold = t ] :
                 i \in { "dir", "file", "missing" }, sd \in BOOLEAN,
                 t \in { 1, PHASH_THRESHOLD } }
             \cup { [ DefaultArgs EXCEPT !.output = o ] :
                      o \in { None, "report.json", "nodir/report.json" } } :
        Main(a)

\* Outcomes of classifier.load() in a batch, as <<falconsai, nudenet, face
\* cascade>>: everything loads, one of the three fails, all three fail.
BatchLoads ==
    { << "model", "model", "model" >>, << None, "model", "model" >>,
      << "model", None, "model" >>, << "model", "model", None >>,
      << None, None, None >> }

\* classify_batch up to the loop: list the files, deduplicate, build and load
\* the classifier.
BatchStart ==
    /\ pc = "run"
    /\ LET files == GetImageFiles(args.input, disk)
           kept == IF ~args.skip_dedup
                   THEN DeduplicateImages(files, args.dedup_threshold,
                                          IMAGEHASH_AVAILABLE, disk)
                   ELSE files
       IN  IF Len(files) = 0
           THEN /\ report' = EmptyReport(args.input)
                /\ pc' = "returned"
                /\ UNCHANGED << image_files, original_count, dedup_removed,
                                classifier >>
           ELSE /\ original_count' = Len(files)
                /\ image_files' = kept
                /\ dedup_removed' = IF ~args.skip_dedup
                                    THEN Len(files) - Len(kept) ELSE 0
                /\ \E h \in BatchLoads :
                     \* a rerun on the same installation loads the same models
                     /\ prev.ran => h = prev.handles
                     /\ classifier' = Load([ NewClassifier EXCEPT
                                               !.skip_mosaic = args.skip_mosaic,
                                               !.skip_pov = args.skip_pov ],
                                           h[1], h[2], h[3])
                /\ pc' = "loop"
                /\ UNCHANGED report
    /\ UNCHANGED << NSFW_THRESHOLD, SUPER_SAFE_THRESHOLD, MIN_FACE_SCORE,
                    IMAGEHASH_AVAILABLE, disk, args, idx, results, results_order, counters,
                    locals, result, dedup_in, dedup_out, dedup_again,
                    cliVars, selVars >>

\* One iteration of the loop of classify_batch.
BatchClassify ==
    /\ pc = "loop"
    /\ idx < Len(image_files)
    /\ LET image_path == image_files[idx + 1]
           r == Classify(classifier, image_path, disk[Basename(image_path)],
                         NSFW_THRESHOLD, SUPER_SAFE_THRESHOLD, MIN_FACE_SCORE)
       IN  /\ locals' = r.locals
           /\ result' = r.result
           /\ results' = StoreResult(results, r.result)
           /\ results_order' = StoreOrder(results_order, r.result)
           /\ counters' = CountResult(counters, r.result)
    /\ idx' = idx + 1
    /\ UNCHANGED << pc, NSFW_THRESHOLD, SUPER_SAFE_THRESHOLD, MIN_FACE_SCORE,
                    IMAGEHASH_AVAILABLE, classifier, disk, args, image_files,
                    original_count, dedup_removed, report, dedup_in, dedup_out,
                    dedup_again,
                    cliVars, selVars >>

\* The end of classify_batch: compute the statistics and return the report.
BatchReturn ==
    /\ pc = "loop"
    /\ idx = Len(image_files)
    /\ report' = FullReport(args.input, image_files, results, counters,
                            original_count, dedup_removed)
    /\ pc' = "returned"
    /\ UNCHANGED << NSFW_THRESHOLD, SUPER_SAFE_THRESHOLD, MIN_FACE_SCORE,
                    IMAGEHASH_AVAILABLE, classifier, disk, args, image_files,
                    original_count, dedup_removed, idx, results, results_order, counters,
                    locals, result, dedup_in, dedup_out, dedup_again,
                    cliVars, selVars >>

\* An exception escapes classify_batch; the handler of main() prints the
\* error object and exits 1.
BatchRaises ==
    /\ pc \in { "run", "loop" }
    /\ \E msg \in { "[Errno 24] Too many open files" } :
          stdout' = Append(stdout, ErrorJson(msg))
    /\ exit_code' = 1
    /\ pc' = "exited"
    /\ UNCHANGED << batchVars, output_file, prev, selVars >>

\* MainOutput printing the report to stdout also when --output is given.
MainOutput_AlwaysPrints ==
    /\ pc = "returned"
    /\ IF args.output # None /\ ~Writable(args.output)
       THEN /\ stdout' = Append(stdout, ErrorJson("[Errno 2] No such file or directory"))
            /\ exit_code' = 1
            /\ UNCHANGED output_file
       ELSE /\ stdout' = Append(stdout, ReportJson(report))
            /\ output_file' = IF args.output # None THEN ReportJson(report)
                              ELSE output_file
            /\ exit_code' = 0
    /\ pc' = "exited"
    /\ UNCHANGED << batchVars, prev, selVars >>

\* main() after classify_batch has returned: write the report to --output
\* or print it, print the summary to stderr, exit 0; an exception while
\* writing prints the error object and exits 1.
MainOutput ==
    /\ pc = "returned"
    /\ IF args.output # None
       THEN IF Writable(args.output)
            THEN /\ output_file' = ReportJson(report)
                 /\ exit_code' = 0
                 /\ UNCHANGED stdout
            ELSE /\ stdout' = Append(stdout, ErrorJson("[Errno 2] No such file or directory"))
                 /\ exit_code' = 1
                 /\ UNCHANGED output_file
       ELSE /\ stdout' = Append(stdout, ReportJson(report))
            /\ exit_code' = 0
            /\ UNCHANGED output_file
    /\ pc' = "exited"
    /\ UNCHANGED << batchVars, prev, selVars >>

Init ==
    /\ InitCommon
    /\ pc = "main"
    /\ disk \in UNION { [ 1 .. n -> BatchImages ] : n \in 0 .. MaxBatch }
    /\ IMAGEHASH_AVAILABLE \in BOOLEAN

Next ==
    MainBatch \/ BatchStart \/ BatchClassify \/ BatchReturn \/ BatchRaises
    \/ MainOutput

Spec == Init /\ [][Next]_vars

(***************************************************************************)
(* The command run twice on the same directory with two values of          *)
(* --threshold.                                                            *)
(***************************************************************************)

\* The process has exited with status 0 and the command is started again:
\* the module globals and the locals are those of a fresh process, the
\* directory is the same.
Rerun ==
    /\ pc = "exited"
    /\ exit_code = 0
    /\ ~prev.ran
    /\ prev' = [ ran |-> TRUE, args |-> args, report |-> report,
                 handles |-> << classifier.falconsai_model,
                                classifier.nudenet_detector,
                                classifier.face_cascade >> ]
    /\ NSFW_THRESHOLD' = NSFW_DEFAULT
    /\ SUPER_SAFE_THRESHOLD' = SUPER_SAFE_DEFAULT
    /\ MIN_FACE_SCORE' = MIN_FACE_DEFAULT
    /\ classifier' = NewClassifier
    /\ args' = DefaultArgs
    /\ image_files' = <<>>
    /\ original_count' = 0
    /\ dedup_removed' = 0
    /\ idx' = 0
    /\ results' = <<>>
    /\ results_order' = <<>>
    /\ counters' = ZeroCounters
    /\ report' = NoReport
    /\ locals' = NoLocals
    /\ result' = NoResult
    /\ stdout' = <<>>
    /\ exit_code' = Running
    /\ pc' = "main"
    /\ UNCHANGED << IMAGEHASH_AVAILABLE, disk, dedup_in, dedup_out,
                    dedup_again, output_file, selVars >>

\* Images with a fused score of 0, 0.235, 0.475 and 0.9 (the last in POV
\* composition), and an image that does not load.
MonotoneImages ==
    { PlainImage(NoHash),
      GoodImage(NoHash,
                [ raises |-> FALSE, out |-> << Lab("normal", 800000), Lab("nsfw", 200000) >> ],
                [ raises |-> FALSE, out |-> << Det("BELLY_EXPOSED", 250000) >> ],
                [ raises |-> FALSE, out |-> <<>> ],
                [ raises |-> FALSE, lap_var |-> 250, mean_gray |-> 102 ],
                [ raises |-> FALSE, skin_pixels |-> 5000, skin_lap_var |-> 100,
                  blocks |-> << Blk(0, 50), Blk(0, 40), Blk(0, 30), Blk(0, 20) >> ],
                [ raises |-> FALSE, bottom |-> 50000, edge |-> 0,
                  left |-> 50000, center |-> 50000, right |-> 50000 ]),
      GoodImage(NoHash,
                [ raises |-> FALSE, out |-> << Lab("NSFW", 1000000), Lab("normal", 0) >> ],
                [ raises |-> FALSE, out |-> << Det("BELLY_EXPOSED", 250000) >> ],
                [ raises |-> FALSE, out |-> << <<300, 100, 400, 300>> >> ],
                [ raises |-> FALSE, lap_var |-> 250, mean_gray |-> 102 ],
                [ raises |-> FALSE, skin_pixels |-> 5000, skin_lap_var |-> 100,
                  blocks |-> << Blk(0, 50), Blk(0, 40), Blk(0, 30), Blk(0, 20) >> ],
                [ raises |-> FALSE, bottom |-> 50000, edge |-> 0,
                  left |-> 50000, center |-> 50000, right |-> 50000 ]),
      GoodImage(NoHash,
                [ raises |-> FALSE, out |-> << Lab("normal", 800000), Lab("nsfw", 200000) >> ],
                [ raises |-> FALSE, out |-> << Det("FEMALE_BREAST_EXPOSED", 900000) >> ],
                [ raises |-> FALSE, out |-> << <<250, 50, 500, 500>> >> ],
                [ raises |-> FALSE, lap_var |-> 250, mean_gray |-> 102 ],
                [ raises |-> FALSE, skin_pixels |-> 5000, skin_lap_var |-> 100,
                  blocks |-> << Blk(0, 50), Blk(0, 40), Blk(0, 30), Blk(0, 20) >> ],
                [ raises |-> FALSE, bottom |-> 600000, edge |-> 600000,
                  left |-> 100000, center |-> 500000, right |-> 100000 ]),
      BadImage(NoHash, "cv_none", "") }

\* Runs with the values of --threshold.
MainMonotone ==
    \E t \in { 100000, NSFW_DEFAULT, 500000 } :
        Main([ DefaultArgs EXCEPT !.threshold = t ])

InitMonotone ==
    /\ InitCommon
    /\ pc = "main"
    /\ disk \in UNION { [ 1 .. n -> MonotoneImages ] : n \in 0 .. MaxBatch }
    /\ IMAGEHASH_AVAILABLE = TRUE

NextMonotone ==
    MainMonotone \/ BatchStart \/ BatchClassify \/ BatchReturn \/ MainOutput
    \/ Rerun

SpecMonotone == InitMonotone /\ [][NextMonotone]_vars

(***************************************************************************)
(* classify_batch on a folder of plain images that differ only in their    *)
(* perceptual hash.                                                        *)
(***************************************************************************)

\* Largest number of images in the folder.
MaxFolder == 5

\* Runs with the values of --dedup-threshold.
MainFolder ==
    \E t \in { 1, PHASH_THRESHOLD } :
        Main([ DefaultArgs EXCEPT !.dedup_threshold = t ])

InitFolder ==
    /\ InitCommon
    /\ pc = "main"
    /\ disk \in UNION { [ 1 .. n -> { PlainImage(h) : h \in { 0, 1, 3, NoHash } } ] :
                       n \in 0 .. MaxFolder }
    /\ IMAGEHASH_AVAILABLE = TRUE

NextFolder == MainFolder \/ BatchStart \/ BatchClassify \/ BatchReturn

SpecFolder == InitFolder /\ [][NextFolder]_vars

(***************************************************************************)
(* NSFWClassifier.classify statement by statement inside the loop of       *)
(* classify_batch: the position of the run is the statement about to be    *)
(* executed and locals holds the variables assigned so far.                *)
(***************************************************************************)

\* Largest number of images in the directory of a stepwise run.
MaxStepImages == 2

\* The images of a batch and an uncensored image with sharp skin texture:
\* no block pattern in any window, Laplacian variance 600 over the skin.
StepImages ==
    BatchImages
    \cup { GoodImage(NoHash,
                     [ raises |-> FALSE, out |-> << Lab("normal", 1000000), Lab("nsfw", 0) >> ],
                     [ raises |-> FALSE, out |-> <<>> ],
                     [ raises |-> FALSE, out |-> << <<300, 100, 400, 300>> >> ],
                     [ raises |-> FALSE, lap_var |-> 250, mean_gray |-> 102 ],
                     [ raises |-> FALSE, skin_pixels |-> 5000, skin_lap_var |-> 600,
                       blocks |-> << Blk(0, 50), Blk(0, 40), Blk(0, 30), Blk(0, 20) >> ],
                     [ raises |-> FALSE, bottom |-> 50000, edge |-> 0,
                       left |-> 50000, center |-> 50000, right |-> 50000 ]) }

MainSteps ==
    \E sm \in BOOLEAN, sp \in BOOLEAN :
        Main([ DefaultArgs EXCEPT !.skip_dedup = TRUE, !.skip_mosaic = sm,
                                  !.skip_pov = sp ])

\* classify with the fusion moved behind the POV detection.
StepOrder_FusionLast ==
    << "falconsai", "nudenet", "face", "aesthetic", "mosaic", "pov",
       "fusion", "tier" >>

\* The statements of classify after the image is loaded, in the order of the
\* source text.
StepOrder ==
    << "falconsai", "nudenet", "fusion", "face", "aesthetic", "mosaic",
       "pov", "tier" >>

\* The position after a statement: the next statement, or the store of the
\* returned dict by the loop of classify_batch.
After(step) ==
    LET i == CHOOSE k \in 1 .. Len(StepOrder) : StepOrder[k] = step
    IN  IF i = Len(StepOrder) THEN "store" ELSE StepOrder[i + 1]

\* The image classify is working on.
CurrentImage == disk[Basename(image_files[idx + 1])]

\* What a step leaves alone besides pc, locals and result.
stepFrame ==
    << NSFW_THRESHOLD, SUPER_SAFE_THRESHOLD, MIN_FACE_SCORE,
       IMAGEHASH_AVAILABLE, classifier, disk, args, image_files,
       original_count, dedup_removed, idx, results, results_order, counters, report,
       dedup_in, dedup_out, dedup_again, cliVars, selVars >>

\* Image.open(...).convert("RGB") and cv2.imread: an exception or a None
\* image ends classify with an error dict.
StepLoad ==
    /\ pc = "loop"
    /\ idx < Len(image_files)
    /\ LET filename == Basename(image_files[idx + 1])
           img == CurrentImage
       IN  IF img.load = "pil_error"
           THEN /\ result' = ErrorResultExc(filename, img.errmsg)
                /\ locals' = NoLocals
                /\ pc' = "store"
           ELSE IF img.load = "cv_none"
           THEN /\ result' = ErrorResultCv(filename)
                /\ locals' = NoLocals
                /\ pc' = "store"
           ELSE /\ locals' = [ loaded |-> TRUE, filename |-> filename ]
                /\ pc' = StepOrder[1]
                /\ UNCHANGED result
    /\ UNCHANGED stepFrame

\* falconsai_score = self._score_falconsai(pil_image)
StepFalconsai ==
    /\ pc = "falconsai"
    /\ locals' = ( "falconsai_score" :>
                     ScoreFalconsai(classifier.falconsai_model,
                                    CurrentImage.falconsai) ) @@ locals
    /\ pc' = After("falconsai")
    /\ UNCHANGED << result, stepFrame >>

\* nudenet_score = self._score_nudenet(cv_image, filename, verbose)
StepNudenet ==
    /\ pc = "nudenet"
    /\ locals' = ( "nudenet_score" :>
                     ScoreNudenet(classifier.nudenet_detector,
                                  CurrentImage.nudenet) ) @@ locals
    /\ pc' = After("nudenet")
    /\ UNCHANGED << result, stepFrame >>

\* The weighted combination of the two NSFW scores.
StepFusion ==
    /\ pc = "fusion"
    /\ locals' = ( "nsfw_score" :>
                     Fuse(locals.falconsai_score, locals.nudenet_score) )
                 @@ locals
    /\ pc' = After("fusion")
    /\ UNCHANGED << result, stepFrame >>

\* face_score, face_data = self._calculate_face_score(cv_image)
StepFace ==
    /\ pc = "face"
    /\ LET face == CalculateFaceScore(classifier.face_cascade, CurrentImage)
       IN  locals' = ( "face_score" :> face[1] ) @@ ( "face_data" :> face[2] )
                     @@ locals
    /\ pc' = After("face")
    /\ UNCHANGED << result, stepFrame >>

\* aesthetic_score = self._calculate_aesthetic_score(cv_image)
StepAesthetic ==
    /\ pc = "aesthetic"
    /\ locals' = ( "aesthetic_score" :> CalculateAestheticScore(CurrentImage) )
                 @@ locals
    /\ pc' = After("aesthetic")
    /\ UNCHANGED << result, stepFrame >>

\* The mosaic detection, or its skipped value.
StepMosaic ==
    /\ pc = "mosaic"
    /\ LET mosaic == IF classifier.skip_mosaic THEN << FALSE, 0, "skipped" >>
                     ELSE DetectMosaic(CurrentImage)
       IN  locals' = ( "mosaic_detected" :> mosaic[1] )
                     @@ ( "mosaic_score" :> mosaic[2] ) @@ locals
    /\ pc' = After("mosaic")
    /\ UNCHANGED << result, stepFrame >>

\* The POV detection, or its skipped value.
StepPov ==
    /\ pc = "pov"
    /\ LET pov == IF classifier.skip_pov THEN << FALSE, 0, "skipped" >>
                  ELSE DetectPov(CurrentImage, locals.face_data)
       IN  locals' = ( "pov_detected" :> pov[1] ) @@ ( "pov_score" :> pov[2] )
                     @@ locals
    /\ pc' = After("pov")
    /\ UNCHANGED << result, stepFrame >>

\* The three-tier classification and the returned dict.
StepTier ==
    /\ pc = "tier"
    /\ LET is_super_safe ==
               IsSuperSafe(locals.nsfw_score, locals.face_score,
                           locals.mosaic_detected, locals.pov_detected,
                           SUPER_SAFE_THRESHOLD, MIN_FACE_SCORE)
           is_safe == IsSafe(locals.nsfw_score, locals.mosaic_detected,
                             NSFW_THRESHOLD)
           tier == Tier(locals.nsfw_score, locals.face_score,
                        locals.mosaic_detected, locals.pov_detected,
                        is_super_safe, NSFW_THRESHOLD, SUPER_SAFE_THRESHOLD)
       IN  result' =
             [ filename |-> locals.filename,
               is_super_safe |-> is_super_safe,
               is_safe |-> is_safe,
               nsfw_score |-> Round4(locals.nsfw_score),
               face_score |-> Round4(locals.face_score),
               aesthetic_score |-> Round4(locals.aesthetic_score),
               falconsai_score |-> Round4(locals.falconsai_score),
               nudenet_score |-> Round4(locals.nudenet_score),
               mosaic_detected |-> locals.mosaic_detected,
               mosaic_score |-> Round4(locals.mosaic_score),
               pov_detected |-> locals.pov_detected,
               pov_score |-> Round4(locals.pov_score),
               classification |-> tier[1],
               reason |-> tier[2],
               error |-> "" ]
    /\ pc' = After("tier")
    /\ UNCHANGED << locals, stepFrame >>

\* The loop of classify_batch stores and counts the returned dict and goes
\* on to the next image.
StepStore ==
    /\ pc = "store"
    /\ results' = StoreResult(results, result)
    /\ results_order' = StoreOrder(results_order, result)
    /\ counters' = CountResult(counters, result)
    /\ idx' = idx + 1
    /\ pc' = "loop"
    /\ UNCHANGED << NSFW_THRESHOLD, SUPER_SAFE_THRESHOLD, MIN_FACE_SCORE,
                    IMAGEHASH_AVAILABLE, classifier, disk, args, image_files,
                    original_count, dedup_removed, report, locals, result,
                    dedup_in, dedup_out, dedup_again, cliVars, selVars >>

InitSteps ==
    /\ InitCommon
    /\ pc = "main"
    /\ disk \in UNION { [ 1 .. n -> StepImages ] : n \in 0 .. MaxStepImages }
    /\ IMAGEHASH_AVAILABLE = TRUE

NextSteps ==
    \/ MainSteps \/ BatchStart \/ StepLoad \/ StepFalconsai \/ StepNudenet
    \/ StepFusion \/ StepFace \/ StepAesthetic \/ StepMosaic \/ StepPov
    \/ StepTier \/ StepStore \/ BatchReturn

SpecSteps == InitSteps /\ [][NextSteps]_vars


(***************************************************************************)
(* The image selector at work: load_models, select_images, process_image   *)
(* called directly (test_smart_blur.py, download_and_blur.py) and the      *)
(* verification script.                                                    *)
(***************************************************************************)

\* Largest number of urls given to select_images.
MaxUrls == 3

\* File names as dot-separated pieces; the first two share their stem.
FileNames ==
    << <<"009", ".jpg">>, <<"009", ".png">>, <<"a", ".b", ".jpg">>,
       <<"noext">> >>

Url(i) ==
    [ host |-> "cdn", id |-> i,
      name |-> FileNames[((i - 1) % Len(FileNames)) + 1], query |-> "sig" ]

BDet(c, sc, box) == [ class |-> c, score |-> sc, box |-> box ]

\* An image of 1000 x 1000 pixels served at a url: whether it downloads and
\* decodes, and what the libraries report on it (f_blurred: the Falconsai
\* output once the regions are blurred).
SelImage(loads, f, f_blurred, fc, cl, nd) ==
    [ loads |-> loads, w |-> 1000, h |-> 1000, blurred |-> <<>>,
      falconsai |-> f, falconsai_blurred |-> f_blurred,
      faces |-> fc, clip |-> cl, nudenet |-> nd ]

Nsfw(sc) ==
    [ raises |-> FALSE, out |-> << Lab("normal", ONE - sc), Lab("nsfw", sc) >> ]

\* A safe portrait, an image for which the blur works, one for which it does
\* not (with a region at the corner and a region of 4 x 4 pixels), one for
\* which the general model lists two NSFW labels and whose detections carry
\* the labels of the newer NudeNet vocabulary or a score of exactly 0.3, one
\* whose only region is empty, one on which the detector raises, and a url
\* that does not load.
SelImages ==
    { SelImage(TRUE, Nsfw(20000), Nsfw(20000),
               [ raises |-> FALSE, out |-> << <<300, 100, 400, 300>> >> ],
               [ raises |-> FALSE, pos |-> 300000, neg |-> 200000 ],
               [ raises |-> FALSE, out |-> <<>> ]),
      SelImage(TRUE, Nsfw(900000), Nsfw(100000),
               [ raises |-> FALSE, out |-> << <<400, 300, 100, 200>> >> ],
               [ raises |-> FALSE, pos |-> 280000, neg |-> 220000 ],
               [ raises |-> FALSE,
                 out |-> << BDet("EXPOSED_BREAST_F", 800000, <<300, 500, 200, 100>>),
                            BDet("FACE_F", 900000, <<400, 300, 100, 200>>) >> ]),
      SelImage(TRUE, Nsfw(950000), Nsfw(800000),
               [ raises |-> FALSE, out |-> <<>> ],
               [ raises |-> TRUE, pos |-> 0, neg |-> 0 ],
               [ raises |-> FALSE,
                 out |-> << BDet("EXPOSED_GENITALIA_F", 700000, <<900, 900, 200, 200>>),
                            BDet("EXPOSED_BREAST_F", 500000, <<100, 100, 4, 4>>) >> ]),
      SelImage(TRUE,
               [ raises |-> FALSE, out |-> << Lab("sexy", 200000), Lab("porn", 700000),
                                              Lab("normal", 100000) >> ],
               Nsfw(100000),
               [ raises |-> TRUE, out |-> <<>> ],
               [ raises |-> FALSE, pos |-> 300000, neg |-> 200000 ],
               [ raises |-> FALSE,
                 out |-> << BDet("FEMALE_BREAST_EXPOSED", 900000, <<300, 500, 200, 100>>),
                            BDet("EXPOSED_BUTTOCKS", 300000, <<300, 700, 200, 100>>) >> ]),
      SelImage(TRUE, Nsfw(600000), Nsfw(100000),
               [ raises |-> FALSE, out |-> <<>> ],
               [ raises |-> FALSE, pos |-> 300000, neg |-> 200000 ],
               [ raises |-> FALSE,
                 out |-> << BDet("EXPOSED_ANUS", 900000, <<500, 500, 0, 0>>) >> ]),
      SelImage(TRUE, [ raises |-> TRUE, out |-> <<>> ], Nsfw(100000),
               [ raises |-> FALSE, out |-> <<>> ],
               [ raises |-> FALSE, pos |-> 300000, neg |-> 200000 ],
               [ raises |-> TRUE, out |-> <<>> ]),
      SelImage(FALSE, Nsfw(0), Nsfw(0),
               [ raises |-> FALSE, out |-> <<>> ],
               [ raises |-> FALSE, pos |-> 0, neg |-> 0 ],
               [ raises |-> FALSE, out |-> <<>> ]) }

InitSelector ==
    /\ InitBatchState
    /\ pc = "selector"
    /\ disk = <<>>
    /\ IMAGEHASH_AVAILABLE = TRUE
    /\ selector \in { NewImageSelector(b) : b \in BOOLEAN }
    /\ web \in UNION { [ { Url(i) : i \in 1 .. n } -> SelImages ] :
                      n \in 0 .. MaxUrls }
    /\ blur_dir = <<>>
    /\ blur_call = NoCall
    /\ selection = NoSelection
    /\ verify = NoVerify

\* selector.load_models()
LoadSelectorModels ==
    /\ pc = "selector"
    /\ ~selector.loaded
    /\ \E nsfw \in Handles, cascade \in Handles, clip \in Handles,
          nudenet \in Handles :
         selector' = LoadModels(selector, nsfw, cascade, clip, nudenet)
    /\ UNCHANGED << pc, batchVars, cliVars, web, blur_dir, blur_call,
                    selection, verify >>

\* selector.select_images(image_urls, gallery_count); the models are loaded
\* first when they are not, and nudenet2 is the outcome of the load that
\* process_image retries when the detector is not loaded.
SelectImagesCall ==
    /\ pc = "selector"
    /\ \E count \in { 1, 2 }, nsfw \in Handles, cascade \in Handles,
          clip \in Handles, nudenet \in Handles, nudenet2 \in Handles :
         LET sel == LoadModels(selector, nsfw, cascade, clip, nudenet)
             \* the urls read from the input file: every url of the web
             image_urls == [ i \in 1 .. Cardinality(DOMAIN web) |-> Url(i) ]
             r == SelectImages(sel, image_urls, count, web, blur_dir, nudenet2)
         IN  \* outcomes of loads that do not take place are left out
             /\ selector.loaded =>
                  <<nsfw, cascade, clip, nudenet>> = <<None, None, None, None>>
             /\ sel.smart_blur.loaded \/ ~sel.smart_blur.present
                  => nudenet2 = None
             /\ selection' = r.selection
             /\ selector' = r.selector
             /\ blur_dir' = r.files
    /\ pc' = "selected"
    /\ UNCHANGED << batchVars, cliVars, web, blur_call, verify >>

\* smart_blur.process_image(image, filename) on an image that was opened.
ProcessImageCall ==
    /\ pc \in { "selector", "processed" }
    /\ selector.smart_blur.present
    /\ \E u \in DOMAIN web, nudenet \in Handles :
         /\ web[u].loads
         /\ selector.smart_blur.loaded => nudenet = None
         /\ LET p == ProcessImage(selector.smart_blur, web[u], UrlFilename(u),
                                  nudenet)
            IN  /\ selector' = [ selector EXCEPT !.smart_blur = p.sb ]
                /\ blur_call' = [ called |-> TRUE, image |-> web[u],
                                  filename |-> UrlFilename(u), ret |-> p.ret ]
                /\ blur_dir' = IF p.saved THEN (p.path :> p.file) @@ blur_dir
                               ELSE blur_dir
    /\ pc' = "processed"
    /\ UNCHANGED << batchVars, cliVars, web, selection, verify >>

\* verify_nsfw.py on the blur output directory.
VerifyNsfwRun ==
    /\ pc \in { "selected", "processed" }
    /\ verify' = VerifyNsfw(blur_dir)
    /\ pc' = "verified"
    /\ UNCHANGED << batchVars, cliVars, selector, web, blur_dir, blur_call,
                    selection >>

NextSelector ==
    LoadSelectorModels \/ SelectImagesCall \/ ProcessImageCall \/ VerifyNsfwRun

SpecSelector == InitSelector /\ [][NextSelector]_vars


(***************************************************************************)
(* classify_batch on two images with the same Falconsai score whose        *)
(* NudeNet scores lie at or next to the branch boundaries of the fusion.   *)
(***************************************************************************)

\* The Falconsai scores tried are the multiples of 1 / FusionSteps.
FusionSteps == 10

FusionImage(f, n) ==
    GoodImage(NoHash, Nsfw(f),
              [ raises |-> FALSE, out |-> << Det("BUTTOCKS_EXPOSED", n) >> ],
              [ raises |-> FALSE, out |-> <<>> ],
              [ raises |-> FALSE, lap_var |-> 250, mean_gray |-> 102 ],
              [ raises |-> FALSE, skin_pixels |-> 5000, skin_lap_var |-> 100,
                blocks |-> << Blk(0, 50), Blk(0, 40), Blk(0, 30), Blk(0, 20) >> ],
              [ raises |-> FALSE, bottom |-> 50000, edge |-> 0,
                left |-> 50000, center |-> 50000, right |-> 50000 ])

\* The NudeNet scores lie just below and at 0.25, at and just above 0.6.
InitFusion ==
    /\ InitCommon
    /\ pc = "main"
    /\ \E f \in { (k * ONE) \div FusionSteps : k \in 0 .. FusionSteps },
          n1 \in { 249990, 250000, 600000, 600010 },
          n2 \in { 249990, 250000, 600000, 600010 } :
         disk = << FusionImage(f, n1), FusionImage(f, n2) >>
    /\ IMAGEHASH_AVAILABLE = TRUE

NextFusion ==
    \/ Main([ DefaultArgs EXCEPT !.skip_dedup = TRUE ])
    \/ BatchStart \/ BatchClassify \/ BatchReturn

SpecFusion == InitFusion /\ [][NextFusion]_vars

(***************************************************************************)
(* Properties of NSFWClassifier.classify (SpecClassify, SpecConfigured).   *)
(***************************************************************************)

\* classify has returned a result for an image that loaded.
ClassifiedLoaded == pc = "classified" /\ locals.loaded

\* C1: for every image that loads, classification is 'nsfw' if and only if
\* the fused nsfw_score >= NSFW_THRESHOLD or mosaic_detected.
C1_NsfwIffScoreOrMosaic ==
    ClassifiedLoaded =>
        ( result.classification = "nsfw"
          <=> ( locals.nsfw_score >= NSFW_THRESHOLD \/ locals.mosaic_detected ) )

\* C2 (as stated): a result classified 'super_safe' has a reported
\* nsfw_score < SUPER_SAFE_THRESHOLD, a reported face_score > MIN_FACE_SCORE,
\* and neither mosaic_detected nor pov_detected.
C2_SuperSafeReportedScores ==
    ( pc = "classified" /\ result.classification = "super_safe" ) =>
        /\ result.nsfw_score < SUPER_SAFE_THRESHOLD
        /\ result.face_score > MIN_FACE_SCORE
        /\ ~result.mosaic_detected
        /\ ~result.pov_detected

\* C2 (amended): a result classified 'super_safe' has a fused nsfw_score
\* (before the 4-decimal rounding of the report) < SUPER_SAFE_THRESHOLD, a
\* face score (before rounding) > MIN_FACE_SCORE, and neither mosaic_detected
\* nor pov_detected; the reported scores are within 0.00005 of these.
C2_SuperSafeUnroundedScores ==
    ( pc = "classified" /\ result.classification = "super_safe" ) =>
        /\ locals.loaded
        /\ locals.nsfw_score < SUPER_SAFE_THRESHOLD
        /\ locals.face_score > MIN_FACE_SCORE
        /\ ~result.mosaic_detected
        /\ ~result.pov_detected
        /\ Abs(result.nsfw_score - locals.nsfw_score) <= 50
        /\ Abs(result.face_score - locals.face_score) <= 50

\* Witness of C2: a super_safe result whose reported nsfw_score was rounded
\* up to the threshold.
C2_Witness ==
    /\ pc = "classified"
    /\ result.classification = "super_safe"
    /\ result.nsfw_score = SUPER_SAFE_THRESHOLD
    /\ locals.nsfw_score < SUPER_SAFE_THRESHOLD

\* C3: every image with mosaic_detected is classified 'nsfw', whatever the
\* other signals are.
C3_MosaicIsNsfw ==
    ( pc = "classified" /\ result.mosaic_detected ) =>
        result.classification = "nsfw"

\* Witness of C3: mosaic and POV both detected, fused score 0, tier nsfw.
C3_Witness ==
    /\ ClassifiedLoaded
    /\ result.mosaic_detected
    /\ result.pov_detected
    /\ locals.nsfw_score = 0
    /\ result.classification = "nsfw"

C5_SuperSafeImpliesSafe ==
    ( pc = "classified"
      /\ ( result.is_super_safe \/ result.classification = "super_safe" ) )
        => result.is_safe

\* C6: the fused nsfw_score is 0.3*f when n < 0.25, n when n > 0.6 and
\* 0.7*n + 0.3*f otherwise; n = 0.9, f = 0.2 gives 0.9 and tier nsfw.
C6_FusionAndExample ==
    ClassifiedLoaded =>
        LET f == locals.falconsai_score
            n == locals.nudenet_score
        IN  /\ n < 250000 => 10 * locals.nsfw_score = 3 * f
            /\ n > 600000 => locals.nsfw_score = n
            /\ ( n >= 250000 /\ n <= 600000 )
                 => 10 * locals.nsfw_score = 7 * n + 3 * f
            /\ ( n = 900000 /\ f = 200000 )
                 => ( locals.nsfw_score = 900000
                      /\ result.classification = "nsfw" )

\* The fusion rule alone (the part of C6 that the code satisfies).
FusionRule ==
    ClassifiedLoaded =>
        LET f == locals.falconsai_score
            n == locals.nudenet_score
        IN  /\ n < 250000 => 10 * locals.nsfw_score = 3 * f
            /\ n > 600000 => locals.nsfw_score = n
            /\ ( n >= 250000 /\ n <= 600000 )
                 => 10 * locals.nsfw_score = 7 * n + 3 * f


(***************************************************************************)
(* Properties of deduplicate_images (checked under SpecDedup).             *)
(***************************************************************************)
Range(seq) == { seq[i] : i \in 1 .. Len(seq) }

\* The hash deduplicate_images computes for a path.
HashOf(path) == ComputePhash(path, IMAGEHASH_AVAILABLE, disk)

\* Position of a path in the input list.
PosIn(seq, path) == CHOOSE i \in 1 .. Len(seq) : seq[i] = path

\* C9: every image whose hash is None appears in the output, and every image
\* that is dropped has a hash and lies within the threshold of an earlier
\* kept image that has a hash.
C9_UnhashedAlwaysKept ==
    pc \in { "deduped", "rededuped" } =>
        /\ \A p \in Range(dedup_in) :
             HashOf(p) = NoHash => p \in Range(dedup_out)
        /\ \A p \in Range(dedup_in) \ Range(dedup_out) :
             /\ HashOf(p) # NoHash
             /\ \E q \in Range(dedup_out) :
                  /\ HashOf(q) # NoHash
                  /\ PosIn(dedup_in, q) < PosIn(dedup_in, p)
                  /\ Hamming(HashOf(q), HashOf(p)) <= args.dedup_threshold

\* Witness of C9: an unhashable image is kept between two hashed images of
\* which the later one is dropped as a duplicate.
C9_Witness ==
    /\ pc = "deduped"
    /\ Len(dedup_in) = 3
    /\ HashOf(dedup_in[2]) = NoHash
    /\ HashOf(dedup_in[1]) # NoHash
    /\ dedup_out = << dedup_in[1], dedup_in[2] >>

\* C10: deduplicate_images on its own output returns that output unchanged,
\* and no two kept images with a hash are within the threshold of each other.
C10_DedupIdempotent ==
    pc = "rededuped" =>
        /\ dedup_again = dedup_out
        /\ \A i \in 1 .. Len(dedup_out) : \A j \in 1 .. Len(dedup_out) :
             ( i # j /\ HashOf(dedup_out[i]) # NoHash
                     /\ HashOf(dedup_out[j]) # NoHash )
               => Hamming(HashOf(dedup_out[i]), HashOf(dedup_out[j]))
                    > args.dedup_threshold

\* Witness of C10: a first pass that dropped an image and kept two hashed
\* ones, and a second pass that returned the same list.
C10_Witness ==
    /\ pc = "rededuped"
    /\ Len(dedup_out) = 2
    /\ Len(dedup_in) = 3
    /\ HashOf(dedup_out[1]) # NoHash
    /\ HashOf(dedup_out[2]) # NoHash
    /\ dedup_again = dedup_out


(***************************************************************************)
(* Properties of classify_batch (checked under Spec).                      *)
(***************************************************************************)

\* The files listed for the run, before deduplication.
ListedFiles == GetImageFiles(args.input, disk)

\* C7: in every report, total_images is the sum of the four tier counters
\* and the number of images that survived deduplication.
C7_CountsSumToTotal ==
    pc = "returned" =>
        LET st == report.stats IN
        /\ st.total_images = st.super_safe_count + st.safe_count
                             + st.nsfw_count + st.error_count
        /\ st.total_images = Len(image_files)
        /\ st.total_images =
             Cardinality({ p \in Range(ListedFiles) : p \in Range(image_files) })
        /\ "original_images" \in DOMAIN st
             => st.total_images = st.original_images - st.duplicates_removed

\* Witness of C7: a report over a failing image, a clean one and an explicit
\* one.
C7_Witness ==
    /\ pc = "returned"
    /\ report.stats.total_images = 3
    /\ report.stats.error_count = 1
    /\ report.stats.super_safe_count = 1
    /\ report.stats.nsfw_count = 1

\* C8: the results mapping has exactly one entry for each image that
\* survived deduplication and none for an image removed as a duplicate, so
\* the number of entries equals total_images.
C8_OneEntryPerSurvivor ==
    pc = "returned" =>
        /\ DOMAIN report.results = { Basename(p) : p \in Range(image_files) }
        /\ \A k \in DOMAIN report.results : report.results[k].filename = k
        /\ Cardinality(DOMAIN report.results) = report.stats.total_images
        /\ \A p \in Range(ListedFiles) \ Range(image_files) :
             Basename(p) \notin DOMAIN report.results

\* Witness of C8: a report after a deduplication that removed an image, with
\* a failing image among the two survivors.
C8_Witness ==
    /\ pc = "returned"
    /\ report.stats.total_images = 2
    /\ report.stats.duplicates_removed = 1
    /\ report.stats.error_count = 1
    /\ Cardinality(DOMAIN report.results) = 2

(***************************************************************************)
(* Properties of two runs with different thresholds (SpecMonotone).        *)
(***************************************************************************)

\* The settings of this run and of the previous one differ at most in
\* --threshold.
SameSettingsButThreshold ==
    [ args EXCEPT !.threshold = 0 ] = [ prev.args EXCEPT !.threshold = 0 ]

\* C11: for a fixed directory and fixed load outcomes, the run with the lower
\* NSFW_THRESHOLD (all other settings equal) reports an nsfw_count greater
\* than or equal to that of the run with the higher threshold.
C11_ThresholdMonotone ==
    ( prev.ran /\ report.returned /\ SameSettingsButThreshold ) =>
        /\ args.threshold <= prev.args.threshold
             => report.stats.nsfw_count >= prev.report.stats.nsfw_count
        /\ args.threshold >= prev.args.threshold
             => report.stats.nsfw_count <= prev.report.stats.nsfw_count

\* Witness of C11: a second run with a lower threshold that counts strictly
\* more images as nsfw than the first, which counted some.
C11_Witness ==
    /\ prev.ran
    /\ pc = "exited"
    /\ report.returned
    /\ args.threshold < prev.args.threshold
    /\ prev.report.stats.nsfw_count > 0
    /\ report.stats.nsfw_count > prev.report.stats.nsfw_count

(***************************************************************************)
(* Error handling of classify (SpecClassify) and of the batch (Spec).      *)
(***************************************************************************)

\* C12: whenever the image cannot be loaded, because PIL fails to open it or
\* because OpenCV returns no raster, the result has classification 'error',
\* nsfw_score 1.0 and reason 'Failed to load image'.
C12_LoadFailureResult ==
    ( pc = "classified" /\ ~locals.loaded ) =>
        /\ result.classification = "error"
        /\ result.nsfw_score = ONE
        /\ result.reason = "Failed to load image"

\* The image on disk behind the k-th classified file, and its result.
ImageAt(k) == disk[Basename(image_files[k])]

ResultAt(k) == results[Basename(image_files[k])]

\* C13: for every classified image that loaded, the result is not an error
\* result; a signal whose extractor raised or whose model is not loaded has
\* its neutral value (0 for the falconsai, nudenet and face scores, 0.5 for
\* the aesthetic score, false and 0 for mosaic and POV); the signals whose
\* extractor worked have the value computed from the library output; and the
\* loop goes on, so that a returned report has a result for every surviving
\* image.
C13_ExtractorFailureIsNeutral ==
    /\ \A k \in 1 .. idx :
         LET img == ImageAt(k)
             r == ResultAt(k)
             f_failed == classifier.falconsai_model = None \/ img.falconsai.raises
             n_failed == classifier.nudenet_detector = None \/ img.nudenet.raises
             face_failed == classifier.face_cascade = None \/ img.faces.raises
         IN  img.load = "ok" =>
               /\ r.error = ""
               /\ r.classification \in { "super_safe", "safe", "nsfw" }
               /\ f_failed => r.falconsai_score = 0
               /\ n_failed => r.nudenet_score = 0
               /\ face_failed => r.face_score = 0
               /\ img.aesthetic.raises => r.aesthetic_score = 500000
               /\ img.mosaic.raises => ( ~r.mosaic_detected /\ r.mosaic_score = 0 )
               /\ img.skin.raises => ( ~r.pov_detected /\ r.pov_score = 0 )
               /\ ~f_failed => r.falconsai_score
                                 = Round4(ScoreFalconsai("model", img.falconsai))
               /\ ~n_failed => r.nudenet_score
                                 = Round4(ScoreNudenet("model", img.nudenet))
               /\ ~face_failed => r.face_score
                                    = Round4(CalculateFaceScore("model", img)[1])
               /\ ~img.aesthetic.raises
                    => r.aesthetic_score = Round4(CalculateAestheticScore(img))
               /\ ~img.mosaic.raises
                    => r.mosaic_detected = DetectMosaic(img)[1]
    /\ report.returned =>
         /\ idx = Len(image_files)
         /\ \A k \in 1 .. Len(image_files) :
              Basename(image_files[k]) \in DOMAIN report.results

\* Witness of C13: a returned report over three images of which the first is
\* one on which the face, aesthetic and mosaic extractors raised, classified
\* 'safe' from its two NSFW scores, and the second one on which both NSFW
\* models raised.
C13_Witness ==
    /\ pc = "returned"
    /\ Len(image_files) = 3
    /\ classifier.falconsai_model # None
    /\ classifier.nudenet_detector # None
    /\ ImageAt(1).load = "ok"
    /\ ImageAt(1).faces.raises
    /\ ImageAt(1).aesthetic.raises
    /\ ImageAt(1).mosaic.raises
    /\ report.results[Basename(image_files[1])].classification = "safe"
    /\ report.results[Basename(image_files[1])].nsfw_score = 235000
    /\ report.results[Basename(image_files[1])].aesthetic_score = 500000
    /\ ImageAt(2).load = "ok"
    /\ ImageAt(2).falconsai.raises
    /\ ImageAt(2).nudenet.raises
    /\ report.results[Basename(image_files[2])].nsfw_score = 0
    /\ report.results[Basename(image_files[2])].face_score = ONE

(***************************************************************************)
(* Properties of the smart blur and of the selector (SpecSelector).        *)
(***************************************************************************)

\* C14: process_image returns was_blurred = false, with no output path, if
\* and only if no NSFW region was detected in the image; with at least one
\* region it returns true and the path <stem>_blurred.jpg in the configured
\* directory, where the JPEG has been saved.
C14_BlurredIffRegions ==
    ( pc = "processed" /\ blur_call.called ) =>
        LET regions == DetectNsfwRegions(selector.smart_blur, blur_call.image)
            was_blurred == blur_call.ret[1]
            output_path == blur_call.ret[2]
            filename == blur_call.filename
            pieces == IF Len(filename) > 1 THEN Len(filename) - 1 ELSE 1
        IN  /\ ~was_blurred <=> Len(regions) = 0
            /\ ~was_blurred => output_path = NoPath
            /\ was_blurred =>
                 /\ output_path.dir = selector.smart_blur.output_dir
                 /\ Len(output_path.name) = pieces + 1
                 /\ \A i \in 1 .. pieces : output_path.name[i] = filename[i]
                 /\ output_path.name[pieces + 1] = "_blurred.jpg"
                 /\ output_path \in DOMAIN blur_dir

\* Witness of C14: 009.jpg had a region and was saved as 009_blurred.jpg.
C14_Witness ==
    /\ pc = "processed"
    /\ blur_call.called
    /\ blur_call.filename = << "009", ".jpg" >>
    /\ blur_call.ret[1]
    /\ blur_call.ret[2].name = << "009", "_blurred.jpg" >>
    /\ blur_call.ret[2] \in DOMAIN blur_dir
    /\ Len(blur_dir[blur_call.ret[2]].blurred) = 1

\* C15: an image that scored NSFW is in the gallery as blurred and safe only
\* if the classifier, run on its blurred output, gives a score below the
\* NSFW threshold.
C15_BlurredAcceptedOnlyBelowThreshold ==
    ( pc = "selected" /\ selection.returned ) =>
        \A i \in 1 .. Len(selection.gallery) :
            LET g == selection.gallery[i] IN
            ( g.is_blurred /\ g.is_safe ) =>
                /\ g.blurred_path \in DOMAIN blur_dir
                /\ VerifyScore(blur_dir[g.blurred_path]) < SELECTOR_NSFW_THRESHOLD

(***************************************************************************)
(* Properties of the report and of the command line (Spec).                *)
(***************************************************************************)

\* The fields of a result and the keys of the statistics in the schema.
ResultFields ==
    { "filename", "is_super_safe", "is_safe", "nsfw_score", "face_score",
      "aesthetic_score", "falconsai_score", "nudenet_score", "mosaic_detected",
      "mosaic_score", "pov_detected", "pov_score", "classification", "reason",
      "error" }

StatsKeys ==
    { "total_images", "original_images", "duplicates_removed",
      "super_safe_count", "safe_count", "nsfw_count", "error_count",
      "mosaic_count", "pov_count", "avg_nsfw_score", "avg_face_score",
      "processing_time_sec" }

\* C16: in every report, every entry of results has exactly the fifteen
\* fields of the schema, also for an image that failed to load, and stats
\* has exactly the twelve keys, also when the input holds no image.
C16_ReportSchema ==
    report.returned =>
        /\ \A k \in DOMAIN report.results :
             DOMAIN report.results[k] = ResultFields
        /\ DOMAIN report.stats = StatsKeys

\* classify_batch raised: the process has exited although the input path
\* existed and no report was returned.
BatchRaised == pc = "exited" /\ args.input # "missing" /\ ~report.returned

\* The only line on stdout is an object {"error": msg}.
StdoutIsError == Len(stdout) = 1 /\ DOMAIN stdout[1] = { "error" }

WriteRaised ==
    pc = "exited" /\ report.returned /\ args.output # None
    /\ ~Writable(args.output)

InUnitInterval(x) == 0 <= x /\ x <= ONE

\* C18: every numeric score of a result (nsfw, face, aesthetic, falconsai,
\* nudenet, mosaic and POV score) lies in [0, 1], the models returning
\* confidences in [0, 1]; and an 'error' result has nsfw_score exactly 1.0.
C18_ScoresInUnitInterval ==
    pc = "classified" =>
        /\ InUnitInterval(result.nsfw_score)
        /\ InUnitInterval(result.face_score)
        /\ InUnitInterval(result.aesthetic_score)
        /\ InUnitInterval(result.falconsai_score)
        /\ InUnitInterval(result.nudenet_score)
        /\ InUnitInterval(result.mosaic_score)
        /\ InUnitInterval(Get(result, "pov_score", 0))
        /\ result.classification = "error" => result.nsfw_score = ONE

(***************************************************************************)
(* Counters and classifications (Spec), deduplication order (SpecFolder).  *)
(***************************************************************************)

\* Number of entries of the report with the given classification.
CountOf(tier) ==
    Cardinality({ k \in DOMAIN report.results :
                    report.results[k].classification = tier })

\* C19: in every report, super_safe_count, safe_count, nsfw_count and
\* error_count are the numbers of entries of results whose classification
\* is 'super_safe', 'safe', 'nsfw' and 'error'; an entry with classification
\* 'error' is counted in error_count and in no safety tier.
C19_CountersMatchClassifications ==
    report.returned =>
        /\ report.stats.super_safe_count = CountOf("super_safe")
        /\ report.stats.safe_count = CountOf("safe")
        /\ report.stats.nsfw_count = CountOf("nsfw")
        /\ report.stats.error_count = CountOf("error")

\* The k-th listed file is kept by the deduplication.
Kept(k) == ListedFiles[k] \in Range(image_files)

\* C20: the deduplication keeps the listed order, and an image with a hash
\* is kept exactly when its Hamming distance to every previously kept image
\* with a hash is strictly greater than the threshold (at a distance equal
\* to the threshold it is dropped, and of two similar images the earlier one
\* is kept); a folder of 5 images with identical hashes gives
\* original_images = 5, duplicates_removed = 4, total_images = 1.
C20_KeepIffFarFromKept ==
    pc \in { "loop", "returned" } =>
        /\ \A k \in 1 .. Len(ListedFiles) :
             HashOf(ListedFiles[k]) # NoHash =>
               ( Kept(k) <=>
                   \A j \in 1 .. (k - 1) :
                       ( Kept(j) /\ HashOf(ListedFiles[j]) # NoHash ) =>
                           Hamming(HashOf(ListedFiles[j]), HashOf(ListedFiles[k]))
                             > args.dedup_threshold )
        /\ \A a \in 1 .. Len(image_files) : \A b \in 1 .. Len(image_files) :
             a < b => PosIn(ListedFiles, image_files[a])
                        < PosIn(ListedFiles, image_files[b])
        /\ ( pc = "returned" /\ Len(ListedFiles) = 5
             /\ HashOf(ListedFiles[1]) # NoHash
             /\ \A k \in 1 .. 5 : HashOf(ListedFiles[k]) = HashOf(ListedFiles[1]) )
             => /\ report.stats.original_images = 5
                /\ report.stats.duplicates_removed = 4
                /\ report.stats.total_images = 1

\* Witness of C20: the report on a folder of 5 images with identical hashes.
C20_Witness ==
    /\ pc = "returned"
    /\ Len(ListedFiles) = 5
    /\ \A k \in 1 .. 5 : HashOf(ListedFiles[k]) = 3
    /\ image_files = << ListedFiles[1] >>
    /\ report.stats.original_images = 5
    /\ report.stats.duplicates_removed = 4
    /\ report.stats.total_images = 1

\* A folder with hashes 0, 1, 3 at threshold 1: the second image is at a
\* distance equal to the threshold of the first and is dropped; the third is
\* within the threshold of the dropped one only, and is kept.
TieDroppedThirdKept ==
    /\ pc = "returned"
    /\ args.dedup_threshold = 1
    /\ Len(ListedFiles) = 3
    /\ HashOf(ListedFiles[1]) = 0
    /\ HashOf(ListedFiles[2]) = 1
    /\ HashOf(ListedFiles[3]) = 3
    /\ image_files = << ListedFiles[1], ListedFiles[3] >>

(***************************************************************************)
(* Properties of the detector load of SmartBlur (SpecSelector).            *)
(***************************************************************************)

\* C21: the detector load of SmartBlur is lazy and idempotent: a call of
\* process_image on a loaded engine leaves the engine as it is, and once a
\* load has failed the engine stays unloaded and every later call of
\* process_image returns (False, None).
C21_LoadLazyIdempotentFailureSticks ==
    [][ ( pc = "processed" /\ pc' = "processed" ) =>
          /\ selector.smart_blur.loaded =>
               selector'.smart_blur = selector.smart_blur
          /\ ~selector.smart_blur.loaded =>
               /\ selector'.smart_blur = selector.smart_blur
               /\ blur_call'.ret = << FALSE, NoPath >> ]_vars

(***************************************************************************)
(* Properties of the order of the steps of classify (SpecSteps).           *)
(***************************************************************************)

\* The variables classify has assigned so far.
Assigned(name) == name \in DOMAIN locals

\* The signals of the five extractors behind the two NSFW scorers.
LaterSignals ==
    { "face_score", "aesthetic_score", "mosaic_detected", "pov_detected" }

\* C22 as stated: the steps run in the order loader, general NSFW scorer,
\* region NSFW detector, face detector, aesthetic scorer, mosaic detector,
\* POV detector, fusion, tier: the fused score is computed only after all
\* signals are present.
C22_FusionAfterAllSignals ==
    Assigned("nsfw_score") =>
        /\ Assigned("falconsai_score") /\ Assigned("nudenet_score")
        /\ \A s \in LaterSignals : Assigned(s)

\* C22 amended: the steps run in the order loader, general NSFW scorer,
\* region NSFW detector, fusion, face detector, aesthetic scorer, mosaic
\* detector, POV detector, tier: the fused score is computed as soon as the
\* two NSFW scores are present and before the other signals, the tier is
\* assigned only when all signals are present, the dict returned is that of
\* classify, and an image is classified, stored and counted before the next
\* one is loaded.
C22_StepOrder ==
    /\ Assigned("falconsai_score") => locals.loaded
    /\ Assigned("nudenet_score") => Assigned("falconsai_score")
    /\ Assigned("nsfw_score") => Assigned("nudenet_score")
    /\ Assigned("face_score") => Assigned("nsfw_score")
    /\ Assigned("aesthetic_score") => Assigned("face_score")
    /\ Assigned("mosaic_detected") => Assigned("aesthetic_score")
    /\ Assigned("pov_detected") => Assigned("mosaic_detected")
    /\ pc = "fusion" => \A s \in LaterSignals : ~Assigned(s)
    /\ pc = "store" =>
         /\ result = Classify(classifier, image_files[idx + 1], CurrentImage,
                              NSFW_THRESHOLD, SUPER_SAFE_THRESHOLD,
                              MIN_FACE_SCORE).result
         /\ result.classification # "error" =>
              /\ Assigned("nsfw_score")
              /\ \A s \in LaterSignals : Assigned(s)
    /\ pc \in { StepOrder[k] : k \in 1 .. Len(StepOrder) } \cup { "store" } =>
         /\ idx < Len(image_files)
         /\ DOMAIN results = { Basename(image_files[k]) : k \in 1 .. idx }

\* Witness of C22: the second image of a batch has its fused score while its
\* face has not been looked for yet, the first image being stored.
C22_Witness ==
    /\ pc = "face"
    /\ idx = 1
    /\ Assigned("nsfw_score")
    /\ ~Assigned("face_score")
    /\ Cardinality(DOMAIN results) = 1

(***************************************************************************)
(* Properties of the order of the report (SpecFolder).                     *)
(***************************************************************************)

\* seq lists paths in strictly ascending order of their names.
Ascending(seq) ==
    \A a, b \in 1 .. Len(seq) : a < b => seq[a][2] < seq[b][2]

\* C23: the files are listed in sorted order, the output of
\* deduplicate_images is a subsequence of that list, and the keys of the
\* results mapping are the names of the surviving images in the same order:
\* any two surviving images have the same relative order in the sorted
\* input, in the output of the deduplication and in the report.
C23_OrderPreserved ==
    pc \in { "loop", "returned" } =>
        LET listed == GetImageFiles(args.input, disk) IN
        /\ Ascending(listed)
        /\ Range(listed) = GlobFiles(disk)
        /\ Range(image_files) \subseteq Range(listed)
        /\ \A a, b \in 1 .. Len(image_files) :
              a < b => PosIn(listed, image_files[a]) < PosIn(listed, image_files[b])
        /\ results_order = [ k \in 1 .. idx |-> Basename(image_files[k]) ]
        /\ Range(results_order) = DOMAIN results
        /\ ( pc = "returned" /\ Len(listed) > 0 ) =>
              /\ Len(results_order) = Len(image_files)
              /\ DOMAIN report.results = Range(results_order)

\* Witness of C23: of three files the second was removed as a duplicate of
\* the first, and the report lists the first and the third in that order.
C23_Witness ==
    /\ pc = "returned"
    /\ Len(disk) = 3
    /\ dedup_removed = 1
    /\ results_order = << 1, 3 >>
    /\ DOMAIN report.results = { 1, 3 }

(***************************************************************************)
(* Properties of the redaction of SmartBlur (SpecSelector).                *)
(***************************************************************************)

\* The whole redaction stack: the Gaussian blur at least twice, then the
\* pixelation, the desaturation and the gray overlay.
WholeStack(layers) ==
    LET n == Len(layers) IN
    /\ n >= 5
    /\ \A k \in 1 .. (n - 3) : layers[k] = "gaussian_blur"
    /\ layers[n - 2] = "pixelation"
    /\ layers[n - 1] = "desaturation"
    /\ layers[n] = "gray_overlay"

\* C24: every region written back into a saved image has received the whole
\* redaction stack in order (repeated Gaussian blur, pixelation,
\* desaturation, gray overlay), whatever its size.
C24_WholeStackOnEveryRegion ==
    \A p \in DOMAIN blur_dir :
        \A k \in 1 .. Len(blur_dir[p].blurred) :
            WholeStack(blur_dir[p].blurred[k].layers)

(***************************************************************************)
(* Properties of the fusion at its branch boundaries (SpecFusion).         *)
(***************************************************************************)

\* The two images of the report were scored by both models, with the same
\* Falconsai score, and with the NudeNet scores lo and hi.
ScoredAt(lo, hi) ==
    /\ pc = "returned"
    /\ classifier.falconsai_model # None
    /\ classifier.nudenet_detector # None
    /\ ScoreFalconsai(classifier.falconsai_model, disk[1].falconsai)
         = ScoreFalconsai(classifier.falconsai_model, disk[2].falconsai)
    /\ ScoreNudenet(classifier.nudenet_detector, disk[1].nudenet) = lo
    /\ ScoreNudenet(classifier.nudenet_detector, disk[2].nudenet) = hi

\* The distance of the fused scores of the two images in the report.
FusedGap == Abs(report.results[1].nsfw_score - report.results[2].nsfw_score)

\* C25 as stated: at the branch boundaries n = 0.25 and n = 0.6, for every
\* Falconsai score, the fused scores on the two sides of the boundary differ
\* by at most 0.05.
C25_FusionContinuousWithin005 ==
    ( ScoredAt(249990, 250000) \/ ScoredAt(600000, 600010) ) =>
        FusedGap <= 50000

\* C25 amended: the fused score jumps at both boundaries: at n = 0.25 by
\* 0.175 for every Falconsai score f, at n = 0.6 by |0.18 - 0.3 f| (up to
\* the rounding of the report to four decimals); the two sides differ by at
\* most 0.18, and by more than 0.05 at n = 0.25 for every f and at n = 0.6
\* for f below 0.4 and for f above 0.8.
C25_FusionJumpWithin018 ==
    LET f == report.results[1].falconsai_score IN
    /\ ScoredAt(249990, 250000) => FusedGap = 175000
    /\ ScoredAt(600000, 600010) =>
         /\ Abs(FusedGap - Abs(180000 - (3 * f) \div 10)) <= 100
         /\ FusedGap <= 180000
         /\ ( f < 400000 \/ f > 800000 ) => FusedGap > 50000
         /\ ( 450000 <= f /\ f <= 750000 ) => FusedGap <= 50000

\* Witness of C25: with f = 0 the fused score is 0.42 at n = 0.6 and 0.6
\* just above it.
C25_Witness ==
    /\ ScoredAt(600000, 600010)
    /\ report.results[1].falconsai_score = 0
    /\ report.results[1].nsfw_score = 420000
    /\ report.results[2].nsfw_score = 600000

(***************************************************************************)
(* Properties of the image cache of the selector (SpecSelector).           *)
(***************************************************************************)

\* C26: the image cache of the selector is empty whenever select_images has
\* returned, whether the images of the batch loaded, failed to load, were
\* safe or were blurred.
C26_CacheEmptyAfterBatch ==
    selection.returned => DOMAIN selector.image_cache = {}

\* Witness of C26: a batch of three urls of which one did not load, one was
\* safe and one was blurred has returned, and the cache is empty.
C26_Witness ==
    /\ selection.returned
    /\ Cardinality(DOMAIN web) = 3
    /\ selection.total_images = 2
    /\ selection.safe_images = 1
    /\ selection.blurred_images = 1
    /\ DOMAIN selector.image_cache = {}

(***************************************************************************)
(* Properties of the general NSFW scorers (Spec, SpecSelector).            *)
(***************************************************************************)

\* The largest score among the entries of a model output whose lower-cased
\* label is an NSFW label; 0 when there is none.
MaxMatchingScore(out) ==
    LET matching == { i \in 1 .. Len(out) : Lower(out[i].label) \in FALCONSAI_LABELS }
    IN  IF matching = {} THEN 0
        ELSE out[ CHOOSE i \in matching :
                    \A j \in matching : out[j].score <= out[i].score ].score

\* C27: when the general NSFW model lists several entries with an NSFW
\* label, _score_falconsai returns the maximum of their scores, in whatever
\* order the model lists them; with no such entry it returns 0.
C27_FalconsaiScoreIsMax ==
    pc \in { "loop", "returned" } =>
        \A k \in 1 .. idx :
            ( /\ ImageAt(k).load = "ok"
              /\ classifier.falconsai_model # None
              /\ ~ImageAt(k).falconsai.raises ) =>
                ResultAt(k).falconsai_score
                  = Round4(MaxMatchingScore(ImageAt(k).falconsai.out))

\* C27 for _score_nsfw of the selector: the nsfw_score of every image of
\* the gallery is the maximum of the scores of the entries with an NSFW
\* label.
C27_SelectorScoreIsMax ==
    ( selection.returned /\ selector.nsfw_model # None ) =>
        \A i \in 1 .. Len(selection.gallery) :
            LET g == selection.gallery[i] IN
            ~web[g.url].falconsai.raises =>
                g.nsfw_score = Round3(MaxMatchingScore(web[g.url].falconsai.out))

(***************************************************************************)
(* Properties of the NudeNet label vocabularies (SpecSelector).            *)
(***************************************************************************)

\* The labels of an exposed intimate region in the two NudeNet vocabularies.
ExposedLabels ==
    { "EXPOSED_BREAST_F", "EXPOSED_GENITALIA_F", "EXPOSED_GENITALIA_M",
      "EXPOSED_BUTTOCKS", "EXPOSED_ANUS",
      "FEMALE_BREAST_EXPOSED", "FEMALE_GENITALIA_EXPOSED",
      "MALE_GENITALIA_EXPOSED", "BUTTOCKS_EXPOSED", "ANUS_EXPOSED" }

\* C28: the two NudeNet vocabularies are normalized into one label set: a
\* detection of an exposed intimate region (with a score above 0.3) is
\* selected for redaction by the blur engine whichever vocabulary the
\* detector uses, so process_image blurs the image.
C28_BothVocabulariesRedacted ==
    ( /\ pc = "processed"
      /\ blur_call.called
      /\ selector.smart_blur.detector # None
      /\ ~blur_call.image.nudenet.raises ) =>
        LET dets == blur_call.image.nudenet.out IN
        ( \E i \in 1 .. Len(dets) :
             dets[i].class \in ExposedLabels /\ dets[i].score > 300000 )
          => blur_call.ret[1]

(***************************************************************************)
(* Properties of the mosaic detector (SpecSteps).                          *)
(***************************************************************************)

\* C29: mosaic_detected is true only if, for some block size, the block
\* analysis counted more than 10 skin windows and at least one window with
\* the mosaic pattern among them; the Laplacian boost alone never makes an
\* image a mosaic image.
C29_MosaicNeedsBlockHit ==
    ( Assigned("mosaic_detected") /\ locals.mosaic_detected ) =>
        \E k \in 1 .. Len(CurrentImage.mosaic.blocks) :
            /\ CurrentImage.mosaic.blocks[k].skin > 10
            /\ CurrentImage.mosaic.blocks[k].mosaic >= 1

(***************************************************************************)
(* Properties of what process_image saves (SpecSelector).                  *)
(***************************************************************************)

\* C30: whenever process_image returns was_blurred = true, at least one
\* detected region of the saved image was redacted; an image of the gallery
\* marked as blurred has at least one redacted region in its saved file.
C30_BlurredMeansRedacted ==
    /\ ( pc = "processed" /\ blur_call.called /\ blur_call.ret[1] ) =>
         Len(blur_dir[blur_call.ret[2]].blurred) >= 1
    /\ ( pc = "selected" /\ selection.returned ) =>
         \A i \in 1 .. Len(selection.gallery) :
             selection.gallery[i].is_blurred =>
                 Len(blur_dir[selection.gallery[i].blurred_path].blurred) >= 1

====
